---------------------------- MODULE Spec2Model ----------------------------
(***************************************************************************)
(* The USB session of the Hantek DSO driver (openhantek/src/usb/           *)
(* usbdevice.cpp) as a state machine.                                      *)
(*                                                                         *)
(* Every method of USBDevice is an operator over the session record; a     *)
(* method whose outcome depends on what libusb or the device answers       *)
(* yields the SET of its possible results, one per sequence of answers.    *)
(* A result carries the session afterwards, the value returned, the libusb *)
(* calls made in order, and the deviceDisconnected signals emitted.        *)
(***************************************************************************)
EXTENDS Integers, Sequences, FiniteSets, TLC

(***************************************************************************)
(* Bounds of the model.                                                    *)
(***************************************************************************)
\* the device answers at most this many timeouts during one operation
MaxTimeouts == 2
\* libusb_unref_device calls followed over the life of one session
MaxUnref == 2
\* packets of one bulkReadMulti call followed before the call is cut off
MaxPackets == 3

(***************************************************************************)
(* libusb constants.                                                       *)
(***************************************************************************)
LIBUSB_SUCCESS == 0
LIBUSB_ERROR_ACCESS == -3
LIBUSB_ERROR_NO_DEVICE == -4
LIBUSB_ERROR_NOT_FOUND == -5
LIBUSB_ERROR_BUSY == -6
LIBUSB_ERROR_TIMEOUT == -7
LIBUSB_ERROR_PIPE == -9
LIBUSB_CLASS_VENDOR_SPEC == 255
LIBUSB_REQUEST_TYPE_VENDOR == 64
LIBUSB_ENDPOINT_IN == 128
LIBUSB_ENDPOINT_OUT == 0

(***************************************************************************)
(* Protocol constants.                                                     *)
(***************************************************************************)
CONTROL_GETSPEED == 178
CONTROL_BEGINCOMMAND == 179
HANTEK_EP_OUT == 2
HANTEK_EP_IN == 134
HANTEK_TIMEOUT == 500
HANTEK_TIMEOUT_MULTI == 10
HANTEK_ATTEMPTS == 3
CONNECTION_FULLSPEED == 0
CONNECTION_HIGHSPEED == 1

\* the null handle, and the one handle libusb_open hands out
NullHandle == 0
OpenHandle == 1
\* the value connectionLost stores in `interface`
NoInterface == -1

(***************************************************************************)
(* The devices a session is constructed for: the device descriptor and     *)
(* the first configuration descriptor, as connectDevice reads them.        *)
(***************************************************************************)
Endpoint(address, size) == [bEndpointAddress |-> address, wMaxPacketSize |-> size]

Interface(number, altsettings, class, endpoints) ==
    [bInterfaceNumber |-> number, num_altsetting |-> altsettings,
     bInterfaceClass |-> class, bInterfaceSubClass |-> 0, bInterfaceProtocol |-> 0,
     bNumEndpoints |-> Len(endpoints), endpoint |-> endpoints]

\* a high-speed scope: the vendor interface with the two bulk endpoints
ConfigHighSpeed ==
    << Interface(0, 1, LIBUSB_CLASS_VENDOR_SPEC,
                 << Endpoint(HANTEK_EP_OUT, 512), Endpoint(HANTEK_EP_IN, 512) >>) >>

\* a full-speed scope behind an interface without alternate settings
ConfigFullSpeed ==
    << Interface(0, 0, LIBUSB_CLASS_VENDOR_SPEC, << >>),
       Interface(1, 1, LIBUSB_CLASS_VENDOR_SPEC,
                 << Endpoint(HANTEK_EP_IN, 64), Endpoint(HANTEK_EP_OUT, 64) >>) >>

\* no vendor-specific interface with two endpoints
ConfigNoInterface ==
    << Interface(0, 1, 3, << Endpoint(129, 8) >>) >>

\* a vendor interface with two endpoints at other addresses
ConfigOtherEndpoints ==
    << Interface(0, 1, LIBUSB_CLASS_VENDOR_SPEC,
                 << Endpoint(1, 512), Endpoint(129, 512) >>) >>

\* the model the session is constructed with (DSO-2150)
ModelDSO2150 == [vendorID |-> 1205, productID |-> 8528]

\* the descriptor of a device with its firmware, and of one still without
DescriptorWithFirmware == [idVendor |-> 1205, idProduct |-> 8528]
DescriptorWithoutFirmware == [idVendor |-> 1204, idProduct |-> 8528]

(***************************************************************************)
(* The BEGIN_COMMAND control frame: 0x0f, the bulk index three times, zeros*)
(***************************************************************************)
ControlBeginCommand(index) == << 15, index, index, index, 0, 0, 0, 0, 0, 0 >>

(***************************************************************************)
(* Bulk command frames, as far as the session looks at them: their bytes.  *)
(***************************************************************************)
\* BulkCaptureStart and BulkSetFilter, default constructed
Commands == { << 3, 0 >>, << 0, 15, 0, 0, 0, 0, 0, 0 >> }

(***************************************************************************)
(* One libusb call in the log of an operation.                             *)
(***************************************************************************)
LibCall(fn) ==
    [fn |-> fn, type |-> 0, request |-> 0, endpoint |-> 0, data |-> << >>,
     length |-> 0, offset |-> 0, timeout |-> 0, interface |-> 0, rc |-> 0,
     transferred |-> 0]

IsTransfer(c) == c.fn \in {"libusb_control_transfer", "libusb_bulk_transfer"}

(***************************************************************************)
(* The result of an operation.                                             *)
(***************************************************************************)
\* `speed` is the local `s` of getPacketSize (what its speed query yielded),
\* -1 in the results of the other operations
Result(s, ret, calls, emitted) ==
    [s |-> s, ret |-> ret, calls |-> calls, emitted |-> emitted,
     errorMessage |-> << >>, returned |-> TRUE, thrown |-> FALSE, speed |-> -1]

(***************************************************************************)
(* The members the constructor does not set: the session starts detached,  *)
(* with bulk transfers allowed.                                            *)
(***************************************************************************)
MemberInitializers ==
    [ handle |-> NullHandle, interface |-> NoInterface,
      outPacketLength |-> 0, inPacketLength |-> 0, allowBulkTransfer |-> TRUE ]

(***************************************************************************)
(* USBDevice::USBDevice: the session after construction, for a device with *)
(* this descriptor and configuration.                                      *)
(***************************************************************************)
USBDevice(model, descriptor, config, index) ==
    [ model |-> model, descriptor |-> descriptor, config |-> config,
      handle |-> MemberInitializers.handle,
      interface |-> MemberInitializers.interface,
      outPacketLength |-> MemberInitializers.outPacketLength,
      inPacketLength |-> MemberInitializers.inPacketLength,
      allowBulkTransfer |-> MemberInitializers.allowBulkTransfer,
      beginCommandControl |-> ControlBeginCommand(index),
      \* libusb's side: references the session holds on the device, whether
      \* the handle is open, the interfaces claimed on it, whether an
      \* interface was released that was not claimed, and the timeouts the
      \* device has answered during the operation under way
      deviceRefs |-> 1, opened |-> FALSE, claimed |-> {},
      releasedUnclaimed |-> FALSE, timedOut |-> 0, destroyed |-> FALSE ]

isConnected(s) == s.handle # NullHandle

needsFirmware(s) ==
    s.descriptor.idProduct # s.model.productID \/ s.descriptor.idVendor # s.model.vendorID

(***************************************************************************)
(* USBDevice::connectionLost                                               *)
(***************************************************************************)
connectionLost_emitFirst(s) ==
    LET unref == LibCall("libusb_unref_device")
        s1 == [s EXCEPT !.deviceRefs = @ - 1]
    IN  IF s.handle = NullHandle
        THEN Result(s1, 0, << unref >>, 1)
        ELSE Result([s1 EXCEPT !.claimed = @ \ {s.interface},
                               !.releasedUnclaimed = @ \/ s.interface \notin s.claimed,
                               !.interface = NoInterface,
                               !.opened = FALSE,
                               !.handle = NullHandle],
                    0,
                    << unref,
                       [LibCall("libusb_release_interface") EXCEPT !.interface = s.interface],
                       LibCall("libusb_close") >>,
                    1)

connectionLost(s) ==
    LET unref == LibCall("libusb_unref_device")
        s1 == [s EXCEPT !.deviceRefs = @ - 1]
    IN  IF s.handle = NullHandle
        THEN Result(s1, 0, << unref >>, 0)
        ELSE Result([s1 EXCEPT !.claimed = @ \ {s.interface},
                               !.releasedUnclaimed = @ \/ s.interface \notin s.claimed,
                               !.interface = NoInterface,
                               !.opened = FALSE,
                               !.handle = NullHandle],
                    0,
                    << unref,
                       [LibCall("libusb_release_interface") EXCEPT !.interface = s.interface],
                       LibCall("libusb_close") >>,
                    1)

\* r followed by connectionLost when the transfer ended with NO_DEVICE
LostOnNoDevice(s, errorCode, calls) ==
    IF errorCode = LIBUSB_ERROR_NO_DEVICE
    THEN LET l == connectionLost(s)
         IN  [l EXCEPT !.calls = calls \o l.calls]
    ELSE Result(s, 0, calls, 0)


(***************************************************************************)
(* What libusb can answer to one native transfer.                          *)
(***************************************************************************)
MayTimeOut(s) ==
    IF s.timedOut < MaxTimeouts THEN {LIBUSB_ERROR_TIMEOUT} ELSE {}

TimedOut(s, rc) ==
    IF rc = LIBUSB_ERROR_TIMEOUT THEN [s EXCEPT !.timedOut = @ + 1] ELSE s

\* libusb_control_transfer: an error code, or the number of bytes transferred
NativeControlResults(s, length) ==
    {LIBUSB_ERROR_NO_DEVICE, LIBUSB_ERROR_PIPE, length} \cup MayTimeOut(s)

\* libusb_bulk_transfer: an error code or success, and the bytes transferred
NativeBulkResults(s, length) ==
    { [rc |-> e, transferred |-> 0] :
          e \in {LIBUSB_ERROR_NO_DEVICE, LIBUSB_ERROR_PIPE} \cup MayTimeOut(s) }
    \cup { [rc |-> LIBUSB_SUCCESS, transferred |-> n] :
          n \in {length} \cup (IF length > 0 THEN {length - 1} ELSE {}) }

(***************************************************************************)
(* USBDevice::controlTransfer                                              *)
(***************************************************************************)
RECURSIVE controlTransferLoop(_, _, _, _, _, _)
controlTransferLoop(s, call, attempts, attempt, errorCode, calls) ==
    IF (attempt < attempts \/ attempts = -1) /\ errorCode = LIBUSB_ERROR_TIMEOUT
    THEN UNION { controlTransferLoop(TimedOut(s, rc), call, attempts, attempt + 1, rc,
                                     Append(calls, [call EXCEPT !.rc = rc]))
                 : rc \in NativeControlResults(s, call.length) }
    ELSE { [s |-> s, errorCode |-> errorCode, calls |-> calls] }

controlTransfer_noHandleCheck(s, type, request, data, length, value, index, attempts) ==
    LET call == [LibCall("libusb_control_transfer") EXCEPT
                     !.type = type, !.request = request, !.data = data,
                     !.length = length, !.timeout = HANTEK_TIMEOUT]
    IN  { [LostOnNoDevice(l.s, l.errorCode, l.calls) EXCEPT !.ret = l.errorCode]
          : l \in controlTransferLoop(s, call, attempts, 0, LIBUSB_ERROR_TIMEOUT, << >>) }

controlTransfer(s, type, request, data, length, value, index, attempts) ==
    IF s.handle = NullHandle
    THEN { Result(s, LIBUSB_ERROR_NO_DEVICE, << >>, 0) }
    ELSE LET call == [LibCall("libusb_control_transfer") EXCEPT
                          !.type = type, !.request = request, !.data = data,
                          !.length = length, !.timeout = HANTEK_TIMEOUT]
         IN  { [LostOnNoDevice(l.s, l.errorCode, l.calls) EXCEPT !.ret = l.errorCode]
               : l \in controlTransferLoop(s, call, attempts, 0, LIBUSB_ERROR_TIMEOUT, << >>) }

(***************************************************************************)
(* USBDevice::controlWrite, USBDevice::controlRead                         *)
(***************************************************************************)
controlWrite(s, request, data, length, value, index, attempts) ==
    IF s.handle = NullHandle
    THEN { Result(s, LIBUSB_ERROR_NO_DEVICE, << >>, 0) }
    ELSE controlTransfer(s, LIBUSB_REQUEST_TYPE_VENDOR + LIBUSB_ENDPOINT_OUT,
                         request, data, length, value, index, attempts)

controlRead(s, request, length, value, index, attempts) ==
    IF s.handle = NullHandle
    THEN { Result(s, LIBUSB_ERROR_NO_DEVICE, << >>, 0) }
    ELSE controlTransfer(s, LIBUSB_REQUEST_TYPE_VENDOR + LIBUSB_ENDPOINT_IN,
                         request, << >>, length, value, index, attempts)

(***************************************************************************)
(* USBDevice::getConnectionSpeed.  The response is a 10-byte frame whose   *)
(* first byte the device fills with its speed.                             *)
(***************************************************************************)
SpeedBytes == {CONNECTION_FULLSPEED, CONNECTION_HIGHSPEED, 2}

ControlGetSpeedSize == 10

getConnectionSpeed(s) ==
    UNION { IF r.ret < 0 THEN {r} ELSE { [r EXCEPT !.ret = speed] : speed \in SpeedBytes }
            : r \in controlRead(s, CONTROL_GETSPEED, ControlGetSpeedSize, 0, 0, HANTEK_ATTEMPTS) }

(***************************************************************************)
(* USBDevice::bulkTransfer                                                 *)
(***************************************************************************)
RECURSIVE bulkTransferLoop(_, _, _, _, _, _, _)
bulkTransferLoop(s, call, attempts, attempt, errorCode, transferred, calls) ==
    IF (attempt < attempts \/ attempts = -1) /\ errorCode = LIBUSB_ERROR_TIMEOUT
    THEN UNION { bulkTransferLoop(TimedOut(s, n.rc), call, attempts, attempt + 1,
                                  n.rc, n.transferred,
                                  Append(calls, [call EXCEPT !.rc = n.rc,
                                                             !.transferred = n.transferred]))
                 : n \in NativeBulkResults(s, call.length) }
    ELSE { [s |-> s, errorCode |-> errorCode, transferred |-> transferred,
            calls |-> calls] }

bulkTransferAt_oneAttemptMore(s, endpoint, offset, length, attempts, timeout) ==
    IF s.handle = NullHandle
    THEN { Result(s, LIBUSB_ERROR_NO_DEVICE, << >>, 0) }
    ELSE LET call == [LibCall("libusb_bulk_transfer") EXCEPT
                          !.endpoint = endpoint, !.offset = offset,
                          !.length = length, !.timeout = timeout]
         IN  { [LostOnNoDevice(l.s, l.errorCode, l.calls) EXCEPT
                    !.ret = IF l.errorCode < 0 THEN l.errorCode ELSE l.transferred]
               : l \in bulkTransferLoop(s, call, attempts + 1, 0, LIBUSB_ERROR_TIMEOUT, 0,
                                        << >>) }

bulkTransferAt(s, endpoint, offset, length, attempts, timeout) ==
    IF s.handle = NullHandle
    THEN { Result(s, LIBUSB_ERROR_NO_DEVICE, << >>, 0) }
    ELSE LET call == [LibCall("libusb_bulk_transfer") EXCEPT
                          !.endpoint = endpoint, !.offset = offset,
                          !.length = length, !.timeout = timeout]
         IN  { [LostOnNoDevice(l.s, l.errorCode, l.calls) EXCEPT
                    !.ret = IF l.errorCode < 0 THEN l.errorCode ELSE l.transferred]
               : l \in bulkTransferLoop(s, call, attempts, 0, LIBUSB_ERROR_TIMEOUT, 0,
                                        << >>) }

bulkTransfer(s, endpoint, length, attempts, timeout) ==
    bulkTransferAt(s, endpoint, 0, length, attempts, timeout)

\* r, then every result of `next` from r's session: libusb calls and signals add up
Then(r, next) ==
    { [n EXCEPT !.calls = r.calls \o n.calls, !.emitted = r.emitted + n.emitted] : n \in next }

(***************************************************************************)
(* USBDevice::bulkWrite, USBDevice::bulkRead                               *)
(***************************************************************************)
bulkWrite_noSpeedQuery(s, length, attempts) ==
    IF s.handle = NullHandle
    THEN { Result(s, LIBUSB_ERROR_NO_DEVICE, << >>, 0) }
    ELSE bulkTransfer(s, HANTEK_EP_OUT, length, attempts, HANTEK_TIMEOUT)

bulkWrite(s, length, attempts) ==
    IF s.handle = NullHandle
    THEN { Result(s, LIBUSB_ERROR_NO_DEVICE, << >>, 0) }
    ELSE UNION { IF speed.ret < 0
                 THEN {speed}
                 ELSE Then(speed, bulkTransfer(speed.s, HANTEK_EP_OUT, length, attempts,
                                               HANTEK_TIMEOUT))
                 : speed \in getConnectionSpeed(s) }

bulkRead_ignoreSpeedError(s, length, attempts) ==
    IF s.handle = NullHandle
    THEN { Result(s, LIBUSB_ERROR_NO_DEVICE, << >>, 0) }
    ELSE UNION { Then(speed, bulkTransfer(speed.s, HANTEK_EP_IN, length, attempts,
                                          HANTEK_TIMEOUT))
                 : speed \in getConnectionSpeed(s) }

bulkRead(s, length, attempts) ==
    IF s.handle = NullHandle
    THEN { Result(s, LIBUSB_ERROR_NO_DEVICE, << >>, 0) }
    ELSE UNION { IF speed.ret < 0
                 THEN {speed}
                 ELSE Then(speed, bulkTransfer(speed.s, HANTEK_EP_IN, length, attempts,
                                               HANTEK_TIMEOUT))
                 : speed \in getConnectionSpeed(s) }

(***************************************************************************)
(* USBDevice::bulkCommand                                                  *)
(***************************************************************************)
bulkCommand_ignoreBeginError(s, command, attempts) ==
    IF s.handle = NullHandle
    THEN { Result(s, LIBUSB_ERROR_NO_DEVICE, << >>, 0) }
    ELSE IF ~s.allowBulkTransfer
    THEN { Result(s, LIBUSB_SUCCESS, << >>, 0) }
    ELSE UNION { Then(begin, bulkWrite(begin.s, Len(command), attempts))
                 : begin \in controlWrite(s, CONTROL_BEGINCOMMAND, s.beginCommandControl,
                                          Len(s.beginCommandControl), 0, 0, HANTEK_ATTEMPTS) }

bulkCommand_indexFromCommand(s, command, attempts) ==
    IF s.handle = NullHandle
    THEN { Result(s, LIBUSB_ERROR_NO_DEVICE, << >>, 0) }
    ELSE IF ~s.allowBulkTransfer
    THEN { Result(s, LIBUSB_SUCCESS, << >>, 0) }
    ELSE UNION { IF begin.ret < 0
                 THEN {begin}
                 ELSE Then(begin, bulkWrite(begin.s, Len(command), attempts))
                 : begin \in controlWrite(s, CONTROL_BEGINCOMMAND,
                                          ControlBeginCommand(command[1]),
                                          Len(s.beginCommandControl), 0, 0, HANTEK_ATTEMPTS) }

bulkCommand_disabledAfterBegin(s, command, attempts) ==
    IF s.handle = NullHandle
    THEN { Result(s, LIBUSB_ERROR_NO_DEVICE, << >>, 0) }
    ELSE UNION { IF begin.ret < 0
                 THEN {begin}
                 ELSE IF ~s.allowBulkTransfer
                 THEN { [begin EXCEPT !.ret = LIBUSB_SUCCESS] }
                 ELSE Then(begin, bulkWrite(begin.s, Len(command), attempts))
                 : begin \in controlWrite(s, CONTROL_BEGINCOMMAND, s.beginCommandControl,
                                          Len(s.beginCommandControl), 0, 0, HANTEK_ATTEMPTS) }

bulkCommand(s, command, attempts) ==
    IF s.handle = NullHandle
    THEN { Result(s, LIBUSB_ERROR_NO_DEVICE, << >>, 0) }
    ELSE IF ~s.allowBulkTransfer
    THEN { Result(s, LIBUSB_SUCCESS, << >>, 0) }
    ELSE UNION { IF begin.ret < 0
                 THEN {begin}
                 ELSE Then(begin, bulkWrite(begin.s, Len(command), attempts))
                 : begin \in controlWrite(s, CONTROL_BEGINCOMMAND, s.beginCommandControl,
                                          Len(s.beginCommandControl), 0, 0, HANTEK_ATTEMPTS) }

(***************************************************************************)
(* USBDevice::bulkReadMulti                                                *)
(***************************************************************************)
\* qMin(a, (unsigned int)b) for a below 2^31: a negative b converts to a value
\* of at least 2^31, above a
qMinUnsigned(a, b) == IF b < 0 \/ a < b THEN a ELSE b

RECURSIVE bulkReadMultiLoop_lastResult(_, _, _, _, _)
bulkReadMultiLoop_lastResult(r, length, attempts, packet, received) ==
    IF received < length /\ r.ret = r.s.inPacketLength
    THEN IF packet >= MaxPackets
         THEN { [r EXCEPT !.returned = FALSE] }
         ELSE UNION { bulkReadMultiLoop_lastResult(t, length, attempts, packet + 1,
                                        IF t.ret > 0 THEN received + t.ret ELSE received)
                      : t \in Then(r, bulkTransferAt(r.s, HANTEK_EP_IN,
                                                     packet * r.s.inPacketLength,
                                                     qMinUnsigned(length - received,
                                                                  r.s.inPacketLength),
                                                     attempts, HANTEK_TIMEOUT_MULTI)) }
    ELSE { r }

\* the loop of bulkReadMulti from its test on; `r` carries the session, the
\* last errorCode (as ret), the libusb calls and the signals so far
RECURSIVE bulkReadMultiLoop(_, _, _, _, _)
bulkReadMultiLoop(r, length, attempts, packet, received) ==
    IF received < length /\ r.ret = r.s.inPacketLength
    THEN IF packet >= MaxPackets
         THEN { [r EXCEPT !.returned = FALSE] }
         ELSE UNION { bulkReadMultiLoop(t, length, attempts, packet + 1,
                                        IF t.ret > 0 THEN received + t.ret ELSE received)
                      : t \in Then(r, bulkTransferAt(r.s, HANTEK_EP_IN,
                                                     packet * r.s.inPacketLength,
                                                     qMinUnsigned(length - received,
                                                                  r.s.inPacketLength),
                                                     attempts, HANTEK_TIMEOUT_MULTI)) }
    ELSE { [r EXCEPT !.ret = IF received > 0 THEN received ELSE r.ret] }

bulkReadMulti(s, length, attempts) ==
    IF s.handle = NullHandle
    THEN { Result(s, LIBUSB_ERROR_NO_DEVICE, << >>, 0) }
    ELSE UNION { IF speed.ret < 0
                 THEN {speed}
                 ELSE bulkReadMultiLoop([speed EXCEPT !.ret = speed.s.inPacketLength],
                                        length, attempts, 0, 0)
                 : speed \in getConnectionSpeed(s) }

(***************************************************************************)
(* USBDevice::getPacketSize                                                *)
(***************************************************************************)
getPacketSize_defaultOnUnknown(s) ==
    { IF speed.ret = CONNECTION_FULLSPEED
      THEN [speed EXCEPT !.ret = 64, !.speed = speed.ret]
      ELSE IF speed.ret = CONNECTION_HIGHSPEED
      THEN [speed EXCEPT !.ret = 512, !.speed = speed.ret]
      ELSE IF speed.ret > CONNECTION_HIGHSPEED
      THEN [speed EXCEPT !.ret = 512, !.speed = speed.ret]
      ELSE [speed EXCEPT !.ret = -1, !.speed = speed.ret]
      : speed \in getConnectionSpeed(s) }

getPacketSize(s) ==
    { IF speed.ret = CONNECTION_FULLSPEED
      THEN [speed EXCEPT !.ret = 64, !.speed = speed.ret]
      ELSE IF speed.ret = CONNECTION_HIGHSPEED
      THEN [speed EXCEPT !.ret = 512, !.speed = speed.ret]
      ELSE IF speed.ret > CONNECTION_HIGHSPEED
      THEN [speed EXCEPT !.thrown = TRUE, !.speed = speed.ret]
      ELSE [speed EXCEPT !.ret = -1, !.speed = speed.ret]
      : speed \in getConnectionSpeed(s) }

(***************************************************************************)
(* USBDevice::claimInterface                                               *)
(***************************************************************************)
\* the loop over the endpoints of the interface, from endpoint number `endpoint`
RECURSIVE claimInterfaceEndpoints(_, _, _, _, _)
claimInterfaceEndpoints(s, interfaceDescriptor, endpointOut, endPointIn, endpoint) ==
    IF endpoint <= interfaceDescriptor.bNumEndpoints
    THEN LET endpointDescriptor == interfaceDescriptor.endpoint[endpoint]
             s1 == IF endpointDescriptor.bEndpointAddress = endpointOut
                   THEN [s EXCEPT !.outPacketLength = endpointDescriptor.wMaxPacketSize]
                   ELSE IF endpointDescriptor.bEndpointAddress = endPointIn
                   THEN [s EXCEPT !.inPacketLength = endpointDescriptor.wMaxPacketSize]
                   ELSE s
         IN  claimInterfaceEndpoints(s1, interfaceDescriptor, endpointOut, endPointIn,
                                     endpoint + 1)
    ELSE s

\* what libusb_claim_interface can answer
ClaimResults == {LIBUSB_SUCCESS, LIBUSB_ERROR_BUSY}

claimInterface(s, interfaceDescriptor, endpointOut, endPointIn) ==
    { LET call == [LibCall("libusb_claim_interface") EXCEPT
                       !.interface = interfaceDescriptor.bInterfaceNumber,
                       !.rc = errorCode]
      IN  IF errorCode < 0
          THEN Result(s, errorCode, << call >>, 0)
          ELSE Result(claimInterfaceEndpoints(
                          [s EXCEPT !.claimed = @ \cup {interfaceDescriptor.bInterfaceNumber},
                                    !.interface = interfaceDescriptor.bInterfaceNumber,
                                    !.outPacketLength = 0,
                                    !.inPacketLength = 0],
                          interfaceDescriptor, endpointOut, endPointIn, 1),
                      LIBUSB_SUCCESS, << call >>, 0)
      : errorCode \in ClaimResults }

(***************************************************************************)
(* USBDevice::connectDevice                                                *)
(***************************************************************************)
\* what libusb_open can answer
OpenResults == {LIBUSB_SUCCESS, LIBUSB_ERROR_ACCESS}

\* the loop over the interfaces of the configuration, from `interfaceIndex`
\* (numbered from 1 here): claims the first interface that fits
RECURSIVE connectDeviceInterfaces(_, _)
connectDeviceInterfaces(s, interfaceIndex) ==
    IF interfaceIndex <= Len(s.config)
    THEN LET interface == s.config[interfaceIndex]
         IN  IF interface.num_altsetting < 1
             THEN connectDeviceInterfaces(s, interfaceIndex + 1)
             ELSE IF /\ interface.bInterfaceClass = LIBUSB_CLASS_VENDOR_SPEC
                     /\ interface.bInterfaceSubClass = 0
                     /\ interface.bInterfaceProtocol = 0
                     /\ interface.bNumEndpoints = 2
             THEN claimInterface(s, interface, HANTEK_EP_OUT, HANTEK_EP_IN)
             ELSE connectDeviceInterfaces(s, interfaceIndex + 1)
    ELSE { Result(s, LIBUSB_ERROR_NOT_FOUND, << >>, 0) }

connectDevice_alwaysOpen(s) ==
    IF needsFirmware(s) THEN { Result(s, FALSE, << >>, 0) }
    ELSE UNION {
        LET open == [LibCall("libusb_open") EXCEPT !.rc = errorCode]
        IN  IF errorCode # LIBUSB_SUCCESS
            THEN { [Result([s EXCEPT !.handle = NullHandle], FALSE, << open >>, 0)
                       EXCEPT !.errorMessage = << "Couldn't open device", errorCode >>] }
            ELSE { [c EXCEPT !.ret = (c.ret = LIBUSB_SUCCESS),
                             !.calls = << open >> \o c.calls,
                             !.errorMessage = IF c.ret # LIBUSB_SUCCESS
                                              THEN << "libUsbErrorString", c.ret >>
                                              ELSE << >>]
                   : c \in connectDeviceInterfaces(
                               [s EXCEPT !.handle = OpenHandle, !.opened = TRUE], 1) }
        : errorCode \in OpenResults }

connectDevice_connectedFirst(s) ==
    IF isConnected(s) THEN { Result(s, TRUE, << >>, 0) }
    ELSE IF needsFirmware(s) THEN { Result(s, FALSE, << >>, 0) }
    ELSE UNION {
        LET open == [LibCall("libusb_open") EXCEPT !.rc = errorCode]
        IN  IF errorCode # LIBUSB_SUCCESS
            THEN { [Result([s EXCEPT !.handle = NullHandle], FALSE, << open >>, 0)
                       EXCEPT !.errorMessage = << "Couldn't open device", errorCode >>] }
            ELSE { [c EXCEPT !.ret = (c.ret = LIBUSB_SUCCESS),
                             !.calls = << open >> \o c.calls,
                             !.errorMessage = IF c.ret # LIBUSB_SUCCESS
                                              THEN << "libUsbErrorString", c.ret >>
                                              ELSE << >>]
                   : c \in connectDeviceInterfaces(
                               [s EXCEPT !.handle = OpenHandle, !.opened = TRUE], 1) }
        : errorCode \in OpenResults }

connectDevice(s) ==
    IF needsFirmware(s) THEN { Result(s, FALSE, << >>, 0) }
    ELSE IF isConnected(s) THEN { Result(s, TRUE, << >>, 0) }
    ELSE UNION {
        LET open == [LibCall("libusb_open") EXCEPT !.rc = errorCode]
        IN  IF errorCode # LIBUSB_SUCCESS
            THEN { [Result([s EXCEPT !.handle = NullHandle], FALSE, << open >>, 0)
                       EXCEPT !.errorMessage = << "Couldn't open device", errorCode >>] }
            ELSE { [c EXCEPT !.ret = (c.ret = LIBUSB_SUCCESS),
                             !.calls = << open >> \o c.calls,
                             !.errorMessage = IF c.ret # LIBUSB_SUCCESS
                                              THEN << "libUsbErrorString", c.ret >>
                                              ELSE << >>]
                   : c \in connectDeviceInterfaces(
                               [s EXCEPT !.handle = OpenHandle, !.opened = TRUE], 1) }
        : errorCode \in OpenResults }

(***************************************************************************)
(* USBDevice::~USBDevice                                                   *)
(***************************************************************************)
Destructor(s) ==
    LET l == connectionLost(s)
    IN  [l EXCEPT !.s.destroyed = TRUE]

(***************************************************************************)
(* USBDevice::setEnableBulkTransfer, USBDevice::overwriteInPacketLength    *)
(***************************************************************************)
setEnableBulkTransfer(s, enable) ==
    Result([s EXCEPT !.allowBulkTransfer = enable], 0, << >>, 0)

overwriteInPacketLength(s, len) ==
    Result([s EXCEPT !.inPacketLength = len], 0, << >>, 0)

(***************************************************************************)
(* The bulk command frames (openhantek/src/hantekprotocol/bulkStructs.cpp).*)
(* A frame is its byte array, a function on 0 .. size - 1 as in the        *)
(* source; a setter yields the array afterwards.  A constructor takes the  *)
(* tuple of its arguments: the empty tuple is the default constructor.     *)
(***************************************************************************)
\* DataArray<uint8_t>(size): storage of `size` bytes, zero-filled
DataArray(size) == [i \in 0..(size - 1) |-> 0]

\* DataArray::getSize
getSize(array) == Cardinality(DOMAIN array)

\* enum BulkCode
BulkCode ==
    [ BULK_SETFILTER |-> 0, BULK_SETTRIGGERANDSAMPLERATE |-> 1, BULK_FORCETRIGGER |-> 2,
      BULK_STARTSAMPLING |-> 3, BULK_ENABLETRIGGER |-> 4, BULK_GETDATA |-> 5,
      BULK_GETCAPTURESTATE |-> 6, BULK_SETGAIN |-> 7, BULK_SETLOGICALDATA |-> 8,
      BULK_GETLOGICALDATA |-> 9, BULK_AUNKNOWN |-> 10, BULK_BSETCHANNELS |-> 11,
      BULK_CSETTRIGGERORSAMPLERATE |-> 12, BULK_DSETBUFFER |-> 13,
      BULK_ESETTRIGGERORSAMPLERATE |-> 14, BULK_FSETBUFFER |-> 15, BULK_COUNT |-> 16 ]

\* the bit-field structs laid over a byte of a frame: for each member the
\* place of its lowest bit and its width in bits, the members from the
\* lowest bit up in the order of their declaration
BitStructs ==
    [ FilterBits |->
        [ channel1 |-> [shift |-> 0, width |-> 1],
          channel2 |-> [shift |-> 1, width |-> 1],
          trigger |-> [shift |-> 2, width |-> 1] ],
      GainBits |->
        [ channel1 |-> [shift |-> 0, width |-> 2],
          channel2 |-> [shift |-> 2, width |-> 2] ],
      Tsr1Bits |->
        [ triggerSource |-> [shift |-> 0, width |-> 2],
          recordLength |-> [shift |-> 2, width |-> 3],
          samplerateId |-> [shift |-> 5, width |-> 2],
          downsamplingMode |-> [shift |-> 7, width |-> 1] ],
      Tsr2Bits |->
        [ usedChannels |-> [shift |-> 0, width |-> 2],
          fastRate |-> [shift |-> 2, width |-> 1],
          triggerSlope |-> [shift |-> 3, width |-> 1] ],
      CTriggerBits |->
        [ triggerSource |-> [shift |-> 0, width |-> 2],
          triggerSlope |-> [shift |-> 2, width |-> 1] ],
      DBufferBits |->
        [ triggerPositionUsed |-> [shift |-> 0, width |-> 3],
          recordLength |-> [shift |-> 3, width |-> 3] ],
      ESamplerateBits |->
        [ fastRate |-> [shift |-> 0, width |-> 1],
          downsampling |-> [shift |-> 1, width |-> 1] ],
      ETsrBits |->
        [ fastRate |-> [shift |-> 0, width |-> 1],
          usedChannels |-> [shift |-> 1, width |-> 1],
          triggerSource |-> [shift |-> 2, width |-> 2],
          triggerSlope |-> [shift |-> 4, width |-> 2],
          triggerPulse |-> [shift |-> 6, width |-> 1] ] ]

\* reading a bit-field member of a byte, and the byte after assigning a
\* uint8_t value to the member (the value is cut to the member's width, the
\* other bits stay)
ReadBits(byte, member) == (byte \div (2 ^ member.shift)) % (2 ^ member.width)

WriteBits(byte, member, value) ==
    byte - ReadBits(byte, member) * (2 ^ member.shift)
         + (value % (2 ^ member.width)) * (2 ^ member.shift)

(***************************************************************************)
(* class BulkSetFilter                                                     *)
(***************************************************************************)
BulkSetFilter_getChannel(array, channel) ==
    IF channel = 0
    THEN ReadBits(array[2], BitStructs.FilterBits.channel1) = 1
    ELSE ReadBits(array[2], BitStructs.FilterBits.channel2) = 1

BulkSetFilter_setChannel_sameBit(array, channel, filtered) ==
    [array EXCEPT ![2] = WriteBits(@, BitStructs.FilterBits.channel1,
                                   IF filtered THEN 1 ELSE 0)]

BulkSetFilter_setChannel(array, channel, filtered) ==
    IF channel = 0
    THEN [array EXCEPT ![2] = WriteBits(@, BitStructs.FilterBits.channel1,
                                        IF filtered THEN 1 ELSE 0)]
    ELSE [array EXCEPT ![2] = WriteBits(@, BitStructs.FilterBits.channel2,
                                        IF filtered THEN 1 ELSE 0)]

BulkSetFilter_getTrigger(array) == ReadBits(array[2], BitStructs.FilterBits.trigger) = 1

BulkSetFilter_setTrigger(array, filtered) ==
    [array EXCEPT ![2] = WriteBits(@, BitStructs.FilterBits.trigger,
                                   IF filtered THEN 1 ELSE 0)]

\* BulkSetFilter() and BulkSetFilter(channel1, channel2, trigger)
BulkSetFilter(args) ==
    LET init == [DataArray(8) EXCEPT ![0] = BulkCode.BULK_SETFILTER, ![1] = 15]
    IN  IF Len(args) = 0 THEN init
        ELSE BulkSetFilter_setTrigger(
                 BulkSetFilter_setChannel(
                     BulkSetFilter_setChannel(init, 0, args[1]), 1, args[2]),
                 args[3])

(***************************************************************************)
(* class BulkSetTriggerAndSamplerate                                       *)
(***************************************************************************)
BulkSetTriggerAndSamplerate_getTriggerSource(array) == ReadBits(array[2], BitStructs.Tsr1Bits.triggerSource)

BulkSetTriggerAndSamplerate_setTriggerSource(array, value) ==
    [array EXCEPT ![2] = WriteBits(@, BitStructs.Tsr1Bits.triggerSource, value)]

BulkSetTriggerAndSamplerate_getRecordLength(array) == ReadBits(array[2], BitStructs.Tsr1Bits.recordLength)

BulkSetTriggerAndSamplerate_setRecordLength(array, value) ==
    [array EXCEPT ![2] = WriteBits(@, BitStructs.Tsr1Bits.recordLength, value)]

BulkSetTriggerAndSamplerate_getSamplerateId(array) == ReadBits(array[2], BitStructs.Tsr1Bits.samplerateId)

BulkSetTriggerAndSamplerate_setSamplerateId(array, value) ==
    [array EXCEPT ![2] = WriteBits(@, BitStructs.Tsr1Bits.samplerateId, value)]

BulkSetTriggerAndSamplerate_getDownsamplingMode(array) == ReadBits(array[2], BitStructs.Tsr1Bits.downsamplingMode) = 1

BulkSetTriggerAndSamplerate_setDownsamplingMode(array, downsampling) ==
    [array EXCEPT ![2] = WriteBits(@, BitStructs.Tsr1Bits.downsamplingMode, IF downsampling THEN 1 ELSE 0)]

BulkSetTriggerAndSamplerate_getUsedChannels(array) == ReadBits(array[3], BitStructs.Tsr2Bits.usedChannels)

BulkSetTriggerAndSamplerate_setUsedChannels(array, value) ==
    [array EXCEPT ![3] = WriteBits(@, BitStructs.Tsr2Bits.usedChannels, value)]

BulkSetTriggerAndSamplerate_getFastRate(array) == ReadBits(array[3], BitStructs.Tsr2Bits.fastRate) = 1

BulkSetTriggerAndSamplerate_setFastRate(array, fastRate) ==
    [array EXCEPT ![3] = WriteBits(@, BitStructs.Tsr2Bits.fastRate, IF fastRate THEN 1 ELSE 0)]

BulkSetTriggerAndSamplerate_getTriggerSlope(array) == ReadBits(array[3], BitStructs.Tsr2Bits.triggerSlope)

BulkSetTriggerAndSamplerate_setTriggerSlope(array, slope) ==
    [array EXCEPT ![3] = WriteBits(@, BitStructs.Tsr2Bits.triggerSlope, slope)]

BulkSetTriggerAndSamplerate_getDownsampler(array) == array[4] + array[5] * 256

BulkSetTriggerAndSamplerate_setDownsampler_bytes5and6(array, downsampler) ==
    [array EXCEPT ![5] = downsampler % 256, ![6] = (downsampler \div 256) % 256]

BulkSetTriggerAndSamplerate_setDownsampler(array, downsampler) ==
    [array EXCEPT ![4] = downsampler % 256, ![5] = (downsampler \div 256) % 256]

BulkSetTriggerAndSamplerate_getTriggerPosition(array) ==
    array[6] + array[7] * 256 + array[10] * 65536

BulkSetTriggerAndSamplerate_setTriggerPosition_highByteAt8(array, position) ==
    [array EXCEPT ![6] = position % 256,
                  ![7] = (position \div 256) % 256,
                  ![8] = (position \div 65536) % 256]

BulkSetTriggerAndSamplerate_setTriggerPosition(array, position) ==
    [array EXCEPT ![6] = position % 256,
                  ![7] = (position \div 256) % 256,
                  ![10] = (position \div 65536) % 256]

\* BulkSetTriggerAndSamplerate() and BulkSetTriggerAndSamplerate(downsampler,
\* triggerPosition, triggerSource, recordLength, samplerateId,
\* downsamplingMode, usedChannels, fastRate, triggerSlope), the last seven
\* with the defaults of the declaration
BulkSetTriggerAndSamplerate(args) ==
    LET init == [DataArray(12) EXCEPT ![0] = BulkCode.BULK_SETTRIGGERANDSAMPLERATE]
        defaults == << 0, 0, 0, TRUE, 0, FALSE, 0 >>
        all == args \o SubSeq(defaults, Len(args) - 1, 7)
        a1 == BulkSetTriggerAndSamplerate_setTriggerSource(init, all[3])
        a2 == BulkSetTriggerAndSamplerate_setRecordLength(a1, all[4])
        a3 == BulkSetTriggerAndSamplerate_setSamplerateId(a2, all[5])
        a4 == BulkSetTriggerAndSamplerate_setDownsamplingMode(a3, all[6])
        a5 == BulkSetTriggerAndSamplerate_setUsedChannels(a4, all[7])
        a6 == BulkSetTriggerAndSamplerate_setFastRate(a5, all[8])
        a7 == BulkSetTriggerAndSamplerate_setTriggerSlope(a6, all[9])
        a8 == BulkSetTriggerAndSamplerate_setDownsampler(a7, all[1])
    IN  IF Len(args) = 0 THEN init
        ELSE BulkSetTriggerAndSamplerate_setTriggerPosition(a8, all[2])

(***************************************************************************)
(* The commands without parameters, and the response to                    *)
(* BULK_GETCAPTURESTATE                                                    *)
(***************************************************************************)
BulkForceTrigger == [DataArray(2) EXCEPT ![0] = BulkCode.BULK_FORCETRIGGER]

BulkCaptureStart == [DataArray(2) EXCEPT ![0] = BulkCode.BULK_STARTSAMPLING]

BulkTriggerEnabled == [DataArray(2) EXCEPT ![0] = BulkCode.BULK_ENABLETRIGGER]

BulkGetData_opcodeOfGetCaptureState ==
    [DataArray(2) EXCEPT ![0] = BulkCode.BULK_GETCAPTURESTATE]

BulkGetData == [DataArray(2) EXCEPT ![0] = BulkCode.BULK_GETDATA]

BulkGetCaptureState == [DataArray(2) EXCEPT ![0] = BulkCode.BULK_GETCAPTURESTATE]

BulkGetLogicalData == [DataArray(2) EXCEPT ![0] = BulkCode.BULK_GETLOGICALDATA]

\* enum CaptureState, by the number of each enumerator: the one whose
\* number is known
CaptureState == [ Sampling |-> 2 ]

\* how many bytes of the 512-byte response buffer are kept: no operation
\* reads beyond the fourth
ResponseBytes == 4

BulkResponseGetCaptureState == DataArray(ResponseBytes)

\* the cast (CaptureState)array[0] keeps the number
BulkResponseGetCaptureState_getCaptureState(array) == array[0]

BulkResponseGetCaptureState_getTriggerPoint_noShift(array) ==
    array[2] + array[3] * 256 + array[1]

BulkResponseGetCaptureState_getTriggerPoint(array) ==
    array[2] + array[3] * 256 + array[1] * 65536

(***************************************************************************)
(* class BulkSetGain                                                   *)
(***************************************************************************)
BulkSetGain_getGain(array, channel) ==
    IF channel = 0
    THEN ReadBits(array[2], BitStructs.GainBits.channel1)
    ELSE ReadBits(array[2], BitStructs.GainBits.channel2)

BulkSetGain_setGain(array, channel, value) ==
    IF channel = 0
    THEN [array EXCEPT ![2] = WriteBits(@, BitStructs.GainBits.channel1, value)]
    ELSE [array EXCEPT ![2] = WriteBits(@, BitStructs.GainBits.channel2, value)]

\* BulkSetGain() and BulkSetGain(channel1, channel2)
BulkSetGain(args) ==
    LET init == [DataArray(8) EXCEPT ![0] = BulkCode.BULK_SETGAIN]
    IN  IF Len(args) = 0 THEN init
        ELSE BulkSetGain_setGain(BulkSetGain_setGain(init, 0, args[1]), 1, args[2])

(***************************************************************************)
(* class BulkSetLogicalData                                            *)
(***************************************************************************)
BulkSetLogicalData_getData(array) == array[2]

BulkSetLogicalData_setData(array, data) == [array EXCEPT ![2] = data]

\* BulkSetLogicalData() and BulkSetLogicalData(data)
BulkSetLogicalData(args) ==
    LET init == [DataArray(8) EXCEPT ![0] = BulkCode.BULK_SETLOGICALDATA]
    IN  IF Len(args) = 0 THEN init ELSE BulkSetLogicalData_setData(init, args[1])

(***************************************************************************)
(* class BulkSetChannels2250                                           *)
(***************************************************************************)
BulkSetChannels2250_getUsedChannels(array) == array[2]

BulkSetChannels2250_setUsedChannels(array, value) == [array EXCEPT ![2] = value]

\* BulkSetChannels2250() and BulkSetChannels2250(usedChannels)
BulkSetChannels2250(args) ==
    LET init == [DataArray(4) EXCEPT ![0] = BulkCode.BULK_BSETCHANNELS]
    IN  IF Len(args) = 0 THEN init ELSE BulkSetChannels2250_setUsedChannels(init, args[1])

(***************************************************************************)
(* class BulkSetTrigger2250                                            *)
(***************************************************************************)
BulkSetTrigger2250_getTriggerSource(array) ==
    ReadBits(array[2], BitStructs.CTriggerBits.triggerSource)

BulkSetTrigger2250_setTriggerSource(array, value) ==
    [array EXCEPT ![2] = WriteBits(@, BitStructs.CTriggerBits.triggerSource, value)]

BulkSetTrigger2250_getTriggerSlope(array) ==
    ReadBits(array[2], BitStructs.CTriggerBits.triggerSlope)

BulkSetTrigger2250_setTriggerSlope(array, slope) ==
    [array EXCEPT ![2] = WriteBits(@, BitStructs.CTriggerBits.triggerSlope, slope)]

\* BulkSetTrigger2250() and BulkSetTrigger2250(triggerSource, triggerSlope)
BulkSetTrigger2250(args) ==
    LET init == [DataArray(8) EXCEPT ![0] = BulkCode.BULK_CSETTRIGGERORSAMPLERATE]
    IN  IF Len(args) = 0 THEN init
        ELSE BulkSetTrigger2250_setTriggerSlope(BulkSetTrigger2250_setTriggerSource(init, args[1]), args[2])

(***************************************************************************)
(* class BulkSetSamplerate5200                                         *)
(***************************************************************************)
BulkSetSamplerate5200_getSamplerateFast(array) == array[4]

BulkSetSamplerate5200_setSamplerateFast(array, value) == [array EXCEPT ![4] = value]

BulkSetSamplerate5200_getSamplerateSlow(array) == array[2] + array[3] * 256

BulkSetSamplerate5200_setSamplerateSlow(array, samplerate) ==
    [array EXCEPT ![2] = samplerate % 256, ![3] = (samplerate \div 256) % 256]

\* BulkSetSamplerate5200() and BulkSetSamplerate5200(samplerateSlow,
\* samplerateFast)
BulkSetSamplerate5200(args) ==
    LET init == [DataArray(6) EXCEPT ![0] = BulkCode.BULK_CSETTRIGGERORSAMPLERATE]
    IN  IF Len(args) = 0 THEN init
        ELSE BulkSetSamplerate5200_setSamplerateSlow(BulkSetSamplerate5200_setSamplerateFast(init, args[2]), args[1])

(***************************************************************************)
(* class BulkSetRecordLength2250                                       *)
(***************************************************************************)
BulkSetRecordLength2250_getRecordLength(array) == array[2]

BulkSetRecordLength2250_setRecordLength(array, value) == [array EXCEPT ![2] = value]

\* BulkSetRecordLength2250() and BulkSetRecordLength2250(recordLength)
BulkSetRecordLength2250(args) ==
    LET init == [DataArray(4) EXCEPT ![0] = BulkCode.BULK_DSETBUFFER]
    IN  IF Len(args) = 0 THEN init ELSE BulkSetRecordLength2250_setRecordLength(init, args[1])

(***************************************************************************)
(* class BulkSetBuffer5200                                             *)
(***************************************************************************)
\* enum DTriggerPositionUsed
DTriggerPositionUsed == [ DTRIGGERPOSITION_OFF |-> 0, DTRIGGERPOSITION_ON |-> 7 ]

BulkSetBuffer5200_getTriggerPositionPre(array) == array[2] + array[3] * 256

BulkSetBuffer5200_setTriggerPositionPre(array, position) ==
    [array EXCEPT ![2] = position % 256, ![3] = (position \div 256) % 256]

BulkSetBuffer5200_getTriggerPositionPost(array) == array[6] + array[7] * 256

BulkSetBuffer5200_setTriggerPositionPost(array, position) ==
    [array EXCEPT ![6] = position % 256, ![7] = (position \div 256) % 256]

BulkSetBuffer5200_getUsedPre(array) == array[4]

BulkSetBuffer5200_setUsedPre_byte5(array, value) == [array EXCEPT ![5] = value]

BulkSetBuffer5200_setUsedPre(array, value) == [array EXCEPT ![4] = value]

BulkSetBuffer5200_getUsedPost(array) ==
    ReadBits(array[8], BitStructs.DBufferBits.triggerPositionUsed)

BulkSetBuffer5200_setUsedPost(array, value) ==
    [array EXCEPT ![8] = WriteBits(@, BitStructs.DBufferBits.triggerPositionUsed, value)]

BulkSetBuffer5200_getRecordLength(array) ==
    ReadBits(array[8], BitStructs.DBufferBits.recordLength)

BulkSetBuffer5200_setRecordLength(array, value) ==
    [array EXCEPT ![8] = WriteBits(@, BitStructs.DBufferBits.recordLength, value)]

\* BulkSetBuffer5200() and BulkSetBuffer5200(triggerPositionPre,
\* triggerPositionPost, usedPre, usedPost, recordLength), the last three with
\* the defaults of the declaration
BulkSetBuffer5200(args) ==
    LET init == [DataArray(10) EXCEPT ![0] = BulkCode.BULK_DSETBUFFER, ![5] = 255, ![9] = 255]
        defaults == << DTriggerPositionUsed.DTRIGGERPOSITION_OFF,
                       DTriggerPositionUsed.DTRIGGERPOSITION_OFF, 0 >>
        all == args \o SubSeq(defaults, Len(args) - 1, 3)
        a1 == BulkSetBuffer5200_setTriggerPositionPre(init, all[1])
        a2 == BulkSetBuffer5200_setTriggerPositionPost(a1, all[2])
        a3 == BulkSetBuffer5200_setUsedPre(a2, all[3])
        a4 == BulkSetBuffer5200_setUsedPost(a3, all[4])
    IN  IF Len(args) = 0 THEN init ELSE BulkSetBuffer5200_setRecordLength(a4, all[5])

(***************************************************************************)
(* class BulkSetSamplerate2250                                         *)
(***************************************************************************)
BulkSetSamplerate2250_getFastRate(array) ==
    ReadBits(array[2], BitStructs.ESamplerateBits.fastRate) = 1

BulkSetSamplerate2250_setFastRate(array, fastRate) ==
    [array EXCEPT ![2] = WriteBits(@, BitStructs.ESamplerateBits.fastRate, IF fastRate THEN 1 ELSE 0)]

BulkSetSamplerate2250_getDownsampling(array) ==
    ReadBits(array[2], BitStructs.ESamplerateBits.downsampling) = 1

BulkSetSamplerate2250_setDownsampling(array, downsampling) ==
    [array EXCEPT ![2] = WriteBits(@, BitStructs.ESamplerateBits.downsampling, IF downsampling THEN 1 ELSE 0)]

BulkSetSamplerate2250_getSamplerate(array) == array[4] + array[5] * 256

BulkSetSamplerate2250_setSamplerate(array, samplerate) ==
    [array EXCEPT ![4] = samplerate % 256, ![5] = (samplerate \div 256) % 256]

\* BulkSetSamplerate2250() and BulkSetSamplerate2250(fastRate, downsampling,
\* samplerate), the last two with the defaults of the declaration
BulkSetSamplerate2250(args) ==
    LET init == [DataArray(8) EXCEPT ![0] = BulkCode.BULK_ESETTRIGGERORSAMPLERATE]
        defaults == << FALSE, 0 >>
        all == args \o SubSeq(defaults, Len(args), 2)
        a1 == BulkSetSamplerate2250_setFastRate(init, all[1])
        a2 == BulkSetSamplerate2250_setDownsampling(a1, all[2])
    IN  IF Len(args) = 0 THEN init ELSE BulkSetSamplerate2250_setSamplerate(a2, all[3])

(***************************************************************************)
(* class BulkSetTrigger5200                                            *)
(***************************************************************************)
BulkSetTrigger5200_getTriggerSource(array) ==
    ReadBits(array[2], BitStructs.ETsrBits.triggerSource)

BulkSetTrigger5200_setTriggerSource_wholeByte(array, value) ==
    [array EXCEPT ![2] = value]

BulkSetTrigger5200_setTriggerSource(array, value) ==
    [array EXCEPT ![2] = WriteBits(@, BitStructs.ETsrBits.triggerSource, value)]

BulkSetTrigger5200_getUsedChannels(array) ==
    ReadBits(array[2], BitStructs.ETsrBits.usedChannels)

BulkSetTrigger5200_setUsedChannels(array, value) ==
    [array EXCEPT ![2] = WriteBits(@, BitStructs.ETsrBits.usedChannels, value)]

\* the flag is stored inverted
BulkSetTrigger5200_getFastRate(array) ==
    ReadBits(array[2], BitStructs.ETsrBits.fastRate) = 0

BulkSetTrigger5200_setFastRate_notInverted(array, fastRate) ==
    [array EXCEPT ![2] = WriteBits(@, BitStructs.ETsrBits.fastRate, IF fastRate THEN 1 ELSE 0)]

BulkSetTrigger5200_setFastRate(array, fastRate) ==
    [array EXCEPT ![2] = WriteBits(@, BitStructs.ETsrBits.fastRate, IF fastRate THEN 0 ELSE 1)]

BulkSetTrigger5200_getTriggerSlope(array) ==
    ReadBits(array[2], BitStructs.ETsrBits.triggerSlope)

BulkSetTrigger5200_setTriggerSlope(array, slope) ==
    [array EXCEPT ![2] = WriteBits(@, BitStructs.ETsrBits.triggerSlope, slope)]

BulkSetTrigger5200_getTriggerPulse(array) ==
    ReadBits(array[2], BitStructs.ETsrBits.triggerPulse) = 1

BulkSetTrigger5200_setTriggerPulse(array, pulse) ==
    [array EXCEPT ![2] = WriteBits(@, BitStructs.ETsrBits.triggerPulse, IF pulse THEN 1 ELSE 0)]

\* BulkSetTrigger5200() and BulkSetTrigger5200(triggerSource, usedChannels,
\* fastRate, triggerSlope, triggerPulse), the last three with the defaults
\* of the declaration; the uint8_t triggerPulse becomes the bool of
\* setTriggerPulse
BulkSetTrigger5200(args) ==
    LET init == [DataArray(8) EXCEPT ![0] = BulkCode.BULK_ESETTRIGGERORSAMPLERATE, ![4] = 2]
        defaults == << FALSE, 0, 0 >>
        all == args \o SubSeq(defaults, Len(args) - 1, 3)
        a1 == BulkSetTrigger5200_setTriggerSource(init, all[1])
        a2 == BulkSetTrigger5200_setUsedChannels(a1, all[2])
        a3 == BulkSetTrigger5200_setFastRate(a2, all[3])
        a4 == BulkSetTrigger5200_setTriggerSlope(a3, all[4])
    IN  IF Len(args) = 0 THEN init ELSE BulkSetTrigger5200_setTriggerPulse(a4, all[5] # 0)

(***************************************************************************)
(* class BulkSetBuffer2250                                             *)
(***************************************************************************)
BulkSetBuffer2250_getTriggerPositionPost(array) ==
    array[2] + array[3] * 256 + array[4] * 65536

BulkSetBuffer2250_setTriggerPositionPost(array, position) ==
    [array EXCEPT ![2] = position % 256,
                  ![3] = (position \div 256) % 256,
                  ![4] = (position \div 65536) % 256]

BulkSetBuffer2250_getTriggerPositionPre(array) ==
    array[6] + array[7] * 256 + array[8] * 65536

BulkSetBuffer2250_setTriggerPositionPre(array, position) ==
    [array EXCEPT ![6] = position % 256,
                  ![7] = (position \div 256) % 256,
                  ![8] = (position \div 65536) % 256]

\* BulkSetBuffer2250() on 10 bytes and BulkSetBuffer2250(triggerPositionPre,
\* triggerPositionPost) on 12
BulkSetBuffer2250(args) ==
    IF Len(args) = 0
    THEN [DataArray(10) EXCEPT ![0] = BulkCode.BULK_FSETBUFFER]
    ELSE BulkSetBuffer2250_setTriggerPositionPost(
             BulkSetBuffer2250_setTriggerPositionPre(
                 [DataArray(12) EXCEPT ![0] = BulkCode.BULK_FSETBUFFER], args[1]),
             args[2])

(***************************************************************************)
(* The frames a caller builds: which classes there are, the fields each    *)
(* has a getter and a setter for, and the values passed.                   *)
(***************************************************************************)
\* the values passed for a parameter, by its type, and the responses
\* received, from their first byte on
ParameterValues ==
    [ bool |-> BOOLEAN,
      uint8_t |-> {0, 255},
      DTriggerPositionUsed |-> { DTriggerPositionUsed.DTRIGGERPOSITION_OFF,
                                 DTriggerPositionUsed.DTRIGGERPOSITION_ON },
      uint16_t |-> {0, 48076, 65535},
      uint32_t |-> {0, 11189196, 313179084},
      response |-> { << 2, 171, 52, 18 >>, << 0, 0, 0, 0 >>,
                     << 1, 255, 255, 255 >>, << 3, 0, 1, 0 >> } ]

\* the classes without parameters, and those with setters
Classes ==
    [ command |->
        { "BulkForceTrigger",
          "BulkCaptureStart",
          "BulkTriggerEnabled",
          "BulkGetData",
          "BulkGetCaptureState",
          "BulkGetLogicalData" },
      builder |->
        { "BulkSetFilter",
          "BulkSetTriggerAndSamplerate",
          "BulkSetGain",
          "BulkSetLogicalData",
          "BulkSetChannels2250",
          "BulkSetTrigger2250",
          "BulkSetSamplerate5200",
          "BulkSetRecordLength2250",
          "BulkSetBuffer5200",
          "BulkSetSamplerate2250",
          "BulkSetTrigger5200",
          "BulkSetBuffer2250" } ]

\* the constructor of `class` on `args`
Construct(class, args) ==
    CASE class = "BulkForceTrigger" -> BulkForceTrigger
      [] class = "BulkCaptureStart" -> BulkCaptureStart
      [] class = "BulkTriggerEnabled" -> BulkTriggerEnabled
      [] class = "BulkGetData" -> BulkGetData
      [] class = "BulkGetCaptureState" -> BulkGetCaptureState
      [] class = "BulkGetLogicalData" -> BulkGetLogicalData
      [] class = "BulkSetFilter" -> BulkSetFilter(args)
      [] class = "BulkSetTriggerAndSamplerate" -> BulkSetTriggerAndSamplerate(args)
      [] class = "BulkSetGain" -> BulkSetGain(args)
      [] class = "BulkSetLogicalData" -> BulkSetLogicalData(args)
      [] class = "BulkSetChannels2250" -> BulkSetChannels2250(args)
      [] class = "BulkSetTrigger2250" -> BulkSetTrigger2250(args)
      [] class = "BulkSetSamplerate5200" -> BulkSetSamplerate5200(args)
      [] class = "BulkSetRecordLength2250" -> BulkSetRecordLength2250(args)
      [] class = "BulkSetBuffer5200" -> BulkSetBuffer5200(args)
      [] class = "BulkSetSamplerate2250" -> BulkSetSamplerate2250(args)
      [] class = "BulkSetTrigger5200" -> BulkSetTrigger5200(args)
      [] class = "BulkSetBuffer2250" -> BulkSetBuffer2250(args)

\* the argument tuples the constructors of `class` are called on
ConstructorArgs(class) ==
    { << >> } \cup
    CASE class = "BulkSetFilter" ->
             { << c1, c2, t >> : c1 \in ParameterValues.bool, c2 \in ParameterValues.bool, t \in ParameterValues.bool }
      [] class = "BulkSetTriggerAndSamplerate" ->
             { << d, p >> : d \in ParameterValues.uint16_t, p \in ParameterValues.uint32_t }
             \cup { << 48076, 11189196, 255, 255, 255, FALSE, 255, TRUE, 255 >> }
      [] class = "BulkSetGain" ->
             { << c1, c2 >> : c1 \in ParameterValues.uint8_t, c2 \in ParameterValues.uint8_t }
      [] class = "BulkSetLogicalData" ->
             { << d >> : d \in ParameterValues.uint8_t }
      [] class = "BulkSetChannels2250" ->
             { << u >> : u \in ParameterValues.uint8_t }
      [] class = "BulkSetTrigger2250" ->
             { << s, l >> : s \in ParameterValues.uint8_t, l \in ParameterValues.uint8_t }
      [] class = "BulkSetSamplerate5200" ->
             { << s, f >> : s \in ParameterValues.uint16_t, f \in ParameterValues.uint8_t }
      [] class = "BulkSetRecordLength2250" ->
             { << r >> : r \in ParameterValues.uint8_t }
      [] class = "BulkSetBuffer5200" ->
             { << pre, post >> : pre \in ParameterValues.uint16_t, post \in ParameterValues.uint16_t }
             \cup { << 48076, 1, 7, 7, 255 >> }
      [] class = "BulkSetSamplerate2250" ->
             { << f >> : f \in ParameterValues.bool } \cup { << TRUE, TRUE, 48076 >> }
      [] class = "BulkSetTrigger5200" ->
             { << s, u >> : s \in ParameterValues.uint8_t, u \in ParameterValues.uint8_t }
             \cup { << 255, 255, TRUE, 255, 1 >> }
      [] class = "BulkSetBuffer2250" ->
             { << pre, post >> : pre \in ParameterValues.uint32_t, post \in ParameterValues.uint32_t }
      [] OTHER -> { }

\* the fields of each class with setters, and the values the setter of each
\* is called on
Setters ==
    [ BulkSetFilter |->
        [ Channel1 |-> ParameterValues.bool,
          Channel2 |-> ParameterValues.bool,
          Trigger |-> ParameterValues.bool ],
      BulkSetTriggerAndSamplerate |->
        [ TriggerSource |-> ParameterValues.uint8_t,
          RecordLength |-> ParameterValues.uint8_t,
          SamplerateId |-> ParameterValues.uint8_t,
          DownsamplingMode |-> ParameterValues.bool,
          UsedChannels |-> ParameterValues.uint8_t,
          FastRate |-> ParameterValues.bool,
          TriggerSlope |-> ParameterValues.uint8_t,
          Downsampler |-> ParameterValues.uint16_t,
          TriggerPosition |-> ParameterValues.uint32_t ],
      BulkSetGain |->
        [ Gain1 |-> ParameterValues.uint8_t,
          Gain2 |-> ParameterValues.uint8_t ],
      BulkSetLogicalData |->
        [ Data |-> ParameterValues.uint8_t ],
      BulkSetChannels2250 |->
        [ UsedChannels |-> ParameterValues.uint8_t ],
      BulkSetTrigger2250 |->
        [ TriggerSource |-> ParameterValues.uint8_t,
          TriggerSlope |-> ParameterValues.uint8_t ],
      BulkSetSamplerate5200 |->
        [ SamplerateFast |-> ParameterValues.uint8_t,
          SamplerateSlow |-> ParameterValues.uint16_t ],
      BulkSetRecordLength2250 |->
        [ RecordLength |-> ParameterValues.uint8_t ],
      BulkSetBuffer5200 |->
        [ TriggerPositionPre |-> ParameterValues.uint16_t,
          TriggerPositionPost |-> ParameterValues.uint16_t,
          UsedPre |-> ParameterValues.DTriggerPositionUsed,
          UsedPost |-> ParameterValues.DTriggerPositionUsed,
          RecordLength |-> ParameterValues.uint8_t ],
      BulkSetSamplerate2250 |->
        [ FastRate |-> ParameterValues.bool,
          Downsampling |-> ParameterValues.bool,
          Samplerate |-> ParameterValues.uint16_t ],
      BulkSetTrigger5200 |->
        [ TriggerSource |-> ParameterValues.uint8_t,
          UsedChannels |-> ParameterValues.uint8_t,
          FastRate |-> ParameterValues.bool,
          TriggerSlope |-> ParameterValues.uint8_t,
          TriggerPulse |-> ParameterValues.bool ],
      BulkSetBuffer2250 |->
        [ TriggerPositionPost |-> ParameterValues.uint32_t,
          TriggerPositionPre |-> ParameterValues.uint32_t ] ]

\* the getter of `field` on a frame of `class`
Get(class, field, array) ==
    CASE class = "BulkSetFilter" /\ field = "Channel1" ->
             BulkSetFilter_getChannel(array, 0)
      [] class = "BulkSetFilter" /\ field = "Channel2" ->
             BulkSetFilter_getChannel(array, 1)
      [] class = "BulkSetFilter" /\ field = "Trigger" ->
             BulkSetFilter_getTrigger(array)
      [] class = "BulkSetTriggerAndSamplerate" /\ field = "TriggerSource" ->
             BulkSetTriggerAndSamplerate_getTriggerSource(array)
      [] class = "BulkSetTriggerAndSamplerate" /\ field = "RecordLength" ->
             BulkSetTriggerAndSamplerate_getRecordLength(array)
      [] class = "BulkSetTriggerAndSamplerate" /\ field = "SamplerateId" ->
             BulkSetTriggerAndSamplerate_getSamplerateId(array)
      [] class = "BulkSetTriggerAndSamplerate" /\ field = "DownsamplingMode" ->
             BulkSetTriggerAndSamplerate_getDownsamplingMode(array)
      [] class = "BulkSetTriggerAndSamplerate" /\ field = "UsedChannels" ->
             BulkSetTriggerAndSamplerate_getUsedChannels(array)
      [] class = "BulkSetTriggerAndSamplerate" /\ field = "FastRate" ->
             BulkSetTriggerAndSamplerate_getFastRate(array)
      [] class = "BulkSetTriggerAndSamplerate" /\ field = "TriggerSlope" ->
             BulkSetTriggerAndSamplerate_getTriggerSlope(array)
      [] class = "BulkSetTriggerAndSamplerate" /\ field = "Downsampler" ->
             BulkSetTriggerAndSamplerate_getDownsampler(array)
      [] class = "BulkSetTriggerAndSamplerate" /\ field = "TriggerPosition" ->
             BulkSetTriggerAndSamplerate_getTriggerPosition(array)
      [] class = "BulkSetGain" /\ field = "Gain1" ->
             BulkSetGain_getGain(array, 0)
      [] class = "BulkSetGain" /\ field = "Gain2" ->
             BulkSetGain_getGain(array, 1)
      [] class = "BulkSetLogicalData" /\ field = "Data" ->
             BulkSetLogicalData_getData(array)
      [] class = "BulkSetChannels2250" /\ field = "UsedChannels" ->
             BulkSetChannels2250_getUsedChannels(array)
      [] class = "BulkSetTrigger2250" /\ field = "TriggerSource" ->
             BulkSetTrigger2250_getTriggerSource(array)
      [] class = "BulkSetTrigger2250" /\ field = "TriggerSlope" ->
             BulkSetTrigger2250_getTriggerSlope(array)
      [] class = "BulkSetSamplerate5200" /\ field = "SamplerateFast" ->
             BulkSetSamplerate5200_getSamplerateFast(array)
      [] class = "BulkSetSamplerate5200" /\ field = "SamplerateSlow" ->
             BulkSetSamplerate5200_getSamplerateSlow(array)
      [] class = "BulkSetRecordLength2250" /\ field = "RecordLength" ->
             BulkSetRecordLength2250_getRecordLength(array)
      [] class = "BulkSetBuffer5200" /\ field = "TriggerPositionPre" ->
             BulkSetBuffer5200_getTriggerPositionPre(array)
      [] class = "BulkSetBuffer5200" /\ field = "TriggerPositionPost" ->
             BulkSetBuffer5200_getTriggerPositionPost(array)
      [] class = "BulkSetBuffer5200" /\ field = "UsedPre" ->
             BulkSetBuffer5200_getUsedPre(array)
      [] class = "BulkSetBuffer5200" /\ field = "UsedPost" ->
             BulkSetBuffer5200_getUsedPost(array)
      [] class = "BulkSetBuffer5200" /\ field = "RecordLength" ->
             BulkSetBuffer5200_getRecordLength(array)
      [] class = "BulkSetSamplerate2250" /\ field = "FastRate" ->
             BulkSetSamplerate2250_getFastRate(array)
      [] class = "BulkSetSamplerate2250" /\ field = "Downsampling" ->
             BulkSetSamplerate2250_getDownsampling(array)
      [] class = "BulkSetSamplerate2250" /\ field = "Samplerate" ->
             BulkSetSamplerate2250_getSamplerate(array)
      [] class = "BulkSetTrigger5200" /\ field = "TriggerSource" ->
             BulkSetTrigger5200_getTriggerSource(array)
      [] class = "BulkSetTrigger5200" /\ field = "UsedChannels" ->
             BulkSetTrigger5200_getUsedChannels(array)
      [] class = "BulkSetTrigger5200" /\ field = "FastRate" ->
             BulkSetTrigger5200_getFastRate(array)
      [] class = "BulkSetTrigger5200" /\ field = "TriggerSlope" ->
             BulkSetTrigger5200_getTriggerSlope(array)
      [] class = "BulkSetTrigger5200" /\ field = "TriggerPulse" ->
             BulkSetTrigger5200_getTriggerPulse(array)
      [] class = "BulkSetBuffer2250" /\ field = "TriggerPositionPost" ->
             BulkSetBuffer2250_getTriggerPositionPost(array)
      [] class = "BulkSetBuffer2250" /\ field = "TriggerPositionPre" ->
             BulkSetBuffer2250_getTriggerPositionPre(array)

\* the frame after the setter of `field` on `value`
Set(class, field, array, value) ==
    CASE class = "BulkSetFilter" /\ field = "Channel1" ->
             BulkSetFilter_setChannel(array, 0, value)
      [] class = "BulkSetFilter" /\ field = "Channel2" ->
             BulkSetFilter_setChannel(array, 1, value)
      [] class = "BulkSetFilter" /\ field = "Trigger" ->
             BulkSetFilter_setTrigger(array, value)
      [] class = "BulkSetTriggerAndSamplerate" /\ field = "TriggerSource" ->
             BulkSetTriggerAndSamplerate_setTriggerSource(array, value)
      [] class = "BulkSetTriggerAndSamplerate" /\ field = "RecordLength" ->
             BulkSetTriggerAndSamplerate_setRecordLength(array, value)
      [] class = "BulkSetTriggerAndSamplerate" /\ field = "SamplerateId" ->
             BulkSetTriggerAndSamplerate_setSamplerateId(array, value)
      [] class = "BulkSetTriggerAndSamplerate" /\ field = "DownsamplingMode" ->
             BulkSetTriggerAndSamplerate_setDownsamplingMode(array, value)
      [] class = "BulkSetTriggerAndSamplerate" /\ field = "UsedChannels" ->
             BulkSetTriggerAndSamplerate_setUsedChannels(array, value)
      [] class = "BulkSetTriggerAndSamplerate" /\ field = "FastRate" ->
             BulkSetTriggerAndSamplerate_setFastRate(array, value)
      [] class = "BulkSetTriggerAndSamplerate" /\ field = "TriggerSlope" ->
             BulkSetTriggerAndSamplerate_setTriggerSlope(array, value)
      [] class = "BulkSetTriggerAndSamplerate" /\ field = "Downsampler" ->
             BulkSetTriggerAndSamplerate_setDownsampler(array, value)
      [] class = "BulkSetTriggerAndSamplerate" /\ field = "TriggerPosition" ->
             BulkSetTriggerAndSamplerate_setTriggerPosition(array, value)
      [] class = "BulkSetGain" /\ field = "Gain1" ->
             BulkSetGain_setGain(array, 0, value)
      [] class = "BulkSetGain" /\ field = "Gain2" ->
             BulkSetGain_setGain(array, 1, value)
      [] class = "BulkSetLogicalData" /\ field = "Data" ->
             BulkSetLogicalData_setData(array, value)
      [] class = "BulkSetChannels2250" /\ field = "UsedChannels" ->
             BulkSetChannels2250_setUsedChannels(array, value)
      [] class = "BulkSetTrigger2250" /\ field = "TriggerSource" ->
             BulkSetTrigger2250_setTriggerSource(array, value)
      [] class = "BulkSetTrigger2250" /\ field = "TriggerSlope" ->
             BulkSetTrigger2250_setTriggerSlope(array, value)
      [] class = "BulkSetSamplerate5200" /\ field = "SamplerateFast" ->
             BulkSetSamplerate5200_setSamplerateFast(array, value)
      [] class = "BulkSetSamplerate5200" /\ field = "SamplerateSlow" ->
             BulkSetSamplerate5200_setSamplerateSlow(array, value)
      [] class = "BulkSetRecordLength2250" /\ field = "RecordLength" ->
             BulkSetRecordLength2250_setRecordLength(array, value)
      [] class = "BulkSetBuffer5200" /\ field = "TriggerPositionPre" ->
             BulkSetBuffer5200_setTriggerPositionPre(array, value)
      [] class = "BulkSetBuffer5200" /\ field = "TriggerPositionPost" ->
             BulkSetBuffer5200_setTriggerPositionPost(array, value)
      [] class = "BulkSetBuffer5200" /\ field = "UsedPre" ->
             BulkSetBuffer5200_setUsedPre(array, value)
      [] class = "BulkSetBuffer5200" /\ field = "UsedPost" ->
             BulkSetBuffer5200_setUsedPost(array, value)
      [] class = "BulkSetBuffer5200" /\ field = "RecordLength" ->
             BulkSetBuffer5200_setRecordLength(array, value)
      [] class = "BulkSetSamplerate2250" /\ field = "FastRate" ->
             BulkSetSamplerate2250_setFastRate(array, value)
      [] class = "BulkSetSamplerate2250" /\ field = "Downsampling" ->
             BulkSetSamplerate2250_setDownsampling(array, value)
      [] class = "BulkSetSamplerate2250" /\ field = "Samplerate" ->
             BulkSetSamplerate2250_setSamplerate(array, value)
      [] class = "BulkSetTrigger5200" /\ field = "TriggerSource" ->
             BulkSetTrigger5200_setTriggerSource(array, value)
      [] class = "BulkSetTrigger5200" /\ field = "UsedChannels" ->
             BulkSetTrigger5200_setUsedChannels(array, value)
      [] class = "BulkSetTrigger5200" /\ field = "FastRate" ->
             BulkSetTrigger5200_setFastRate(array, value)
      [] class = "BulkSetTrigger5200" /\ field = "TriggerSlope" ->
             BulkSetTrigger5200_setTriggerSlope(array, value)
      [] class = "BulkSetTrigger5200" /\ field = "TriggerPulse" ->
             BulkSetTrigger5200_setTriggerPulse(array, value)
      [] class = "BulkSetBuffer2250" /\ field = "TriggerPositionPost" ->
             BulkSetBuffer2250_setTriggerPositionPost(array, value)
      [] class = "BulkSetBuffer2250" /\ field = "TriggerPositionPre" ->
             BulkSetBuffer2250_setTriggerPositionPre(array, value)

(***************************************************************************)
(* The state machine: one session, used by one caller, one operation at a  *)
(* time.                                                                   *)
(*   session  the USBDevice object, with libusb's side of it               *)
(*   call     the operation that has just been made: its name, arguments,  *)
(*            the session and `lost` before it, and its result; Idle       *)
(*            between calls                                                *)
(*   lost     history: a native transfer has answered NO_DEVICE and        *)
(*            connectDevice has not returned true since                    *)
(*   frame    the bulk frame the caller holds: its class, its bytes, and   *)
(*            the constructor or setter that made them, with its arguments *)
(*            and the bytes before it                                      *)
(***************************************************************************)
VARIABLES session, call, lost, frame

vars == << session, call, lost, frame >>

Idle == [op |-> "idle"]

\* the frame a constructor of `class` leaves
Constructed(class, args) ==
    [class |-> class, array |-> Construct(class, args), op |-> "construct",
     args |-> args, before |-> << >>]

\* the arguments the caller passes: the attempts of a transfer made directly,
\* the attempts of the other operations (the default of bulkReadMulti and the
\* default of the rest), lengths, and packet lengths to overwrite with
AttemptsValues == {-2, -1, 1, 2}
CallerAttempts == {1, HANTEK_ATTEMPTS}
TransferLengths == {8}
MultiLengths == {0, 100, 128}
PacketLengthOverrides == {0}

\* the sessions constructed: the device and the bulk index of its
\* BEGIN_COMMAND frame
Devices ==
    { << DescriptorWithFirmware, ConfigHighSpeed, 3 >>,
      << DescriptorWithFirmware, ConfigFullSpeed, 10 >>,
      << DescriptorWithFirmware, ConfigNoInterface, 3 >>,
      << DescriptorWithFirmware, ConfigOtherEndpoints, 3 >>,
      << DescriptorWithoutFirmware, ConfigHighSpeed, 3 >> }

Init ==
    /\ session \in { USBDevice(ModelDSO2150, d[1], d[2], d[3]) : d \in Devices }
    /\ call = Idle
    /\ lost = FALSE
    /\ frame = Constructed("BulkCaptureStart", << >>)

AnsweredNoDevice(calls) ==
    \E i \in 1..Len(calls) : IsTransfer(calls[i]) /\ calls[i].rc = LIBUSB_ERROR_NO_DEVICE

\* the caller makes operation `op` with `args`, and it ends as `r`
Does(op, args, r) ==
    /\ session' = [r.s EXCEPT !.timedOut = 0]
    /\ call' = [op |-> op, args |-> args, pre |-> session, lost |-> lost, ret |-> r.ret,
                calls |-> r.calls, emitted |-> r.emitted,
                errorMessage |-> r.errorMessage, returned |-> r.returned,
                thrown |-> r.thrown, speed |-> r.speed]
    /\ lost' = IF op = "connectDevice"
               THEN lost /\ ~r.ret
               ELSE lost \/ AnsweredNoDevice(r.calls)
    /\ UNCHANGED frame

\* the object exists, no call is under way, and the bound on unrefs is not reached
Callable ==
    /\ call = Idle
    /\ ~session.destroyed
    /\ session.deviceRefs > 1 - MaxUnref

ConnectDevice ==
    /\ Callable
    /\ \E r \in connectDevice(session) : Does("connectDevice", << >>, r)

ConnectionLost ==
    /\ Callable
    /\ Does("connectionLost", << >>, connectionLost(session))

Destroy ==
    /\ Callable
    /\ Does("~USBDevice", << >>, Destructor(session))

ControlTransfer ==
    /\ Callable
    /\ \E type \in {LIBUSB_REQUEST_TYPE_VENDOR + LIBUSB_ENDPOINT_OUT,
                    LIBUSB_REQUEST_TYPE_VENDOR + LIBUSB_ENDPOINT_IN},
          attempts \in AttemptsValues :
         \E r \in controlTransfer(session, type, CONTROL_GETSPEED, << >>,
                                  ControlGetSpeedSize, 0, 0, attempts) :
            Does("controlTransfer", << type, attempts >>, r)

ControlWrite ==
    /\ Callable
    /\ \E attempts \in CallerAttempts :
         \E r \in controlWrite(session, CONTROL_BEGINCOMMAND, session.beginCommandControl,
                               Len(session.beginCommandControl), 0, 0, attempts) :
            Does("controlWrite", << attempts >>, r)

ControlRead ==
    /\ Callable
    /\ \E attempts \in CallerAttempts :
         \E r \in controlRead(session, CONTROL_GETSPEED, ControlGetSpeedSize, 0, 0, attempts) :
            Does("controlRead", << attempts >>, r)

GetConnectionSpeed ==
    /\ Callable
    /\ \E r \in getConnectionSpeed(session) : Does("getConnectionSpeed", << >>, r)

GetPacketSize ==
    /\ Callable
    /\ \E r \in getPacketSize(session) : Does("getPacketSize", << >>, r)

BulkTransfer ==
    /\ Callable
    /\ \E endpoint \in {HANTEK_EP_OUT, HANTEK_EP_IN}, length \in TransferLengths,
          attempts \in AttemptsValues :
         \E r \in bulkTransfer(session, endpoint, length, attempts, HANTEK_TIMEOUT) :
            Does("bulkTransfer", << endpoint, length, attempts >>, r)

BulkWrite ==
    /\ Callable
    /\ \E length \in TransferLengths, attempts \in CallerAttempts :
         \E r \in bulkWrite(session, length, attempts) :
            Does("bulkWrite", << length, attempts >>, r)

BulkRead ==
    /\ Callable
    /\ \E length \in TransferLengths, attempts \in CallerAttempts :
         \E r \in bulkRead(session, length, attempts) :
            Does("bulkRead", << length, attempts >>, r)

BulkCommand ==
    /\ Callable
    /\ \E command \in Commands, attempts \in CallerAttempts :
         \E r \in bulkCommand(session, command, attempts) :
            Does("bulkCommand", << command, attempts >>, r)

BulkReadMulti ==
    /\ Callable
    /\ \E length \in MultiLengths, attempts \in CallerAttempts :
         \E r \in bulkReadMulti(session, length, attempts) :
            Does("bulkReadMulti", << length, attempts >>, r)

SetEnableBulkTransfer ==
    /\ Callable
    /\ \E enable \in BOOLEAN :
         Does("setEnableBulkTransfer", << enable >>, setEnableBulkTransfer(session, enable))

OverwriteInPacketLength ==
    /\ Callable
    /\ \E len \in PacketLengthOverrides :
         Does("overwriteInPacketLength", << len >>, overwriteInPacketLength(session, len))

\* the caller has taken the result; the next call can be made
Return ==
    /\ call # Idle
    /\ call' = Idle
    /\ UNCHANGED << session, lost, frame >>

Next ==
    \/ ConnectDevice
    \/ ConnectionLost
    \/ Destroy
    \/ ControlTransfer
    \/ ControlWrite
    \/ ControlRead
    \/ GetConnectionSpeed
    \/ GetPacketSize
    \/ BulkTransfer
    \/ BulkWrite
    \/ BulkRead
    \/ BulkCommand
    \/ BulkReadMulti
    \/ SetEnableBulkTransfer
    \/ OverwriteInPacketLength
    \/ Return

Spec == Init /\ [][Next]_vars

(***************************************************************************)
(* The frames on their own: a caller that constructs frames, calls their   *)
(* setters and receives capture state responses, the session left alone.   *)
(***************************************************************************)
CodecInit ==
    /\ session = USBDevice(ModelDSO2150, DescriptorWithFirmware, ConfigHighSpeed, 3)
    /\ call = Idle
    /\ lost = FALSE
    /\ frame = Constructed("BulkCaptureStart", << >>)

ConstructFrame ==
    /\ \E class \in Classes.command \cup Classes.builder :
         \E args \in ConstructorArgs(class) : frame' = Constructed(class, args)
    /\ UNCHANGED << session, call, lost >>

SetFrameField ==
    /\ frame.class \in Classes.builder
    /\ \E field \in DOMAIN Setters[frame.class] :
         \E value \in Setters[frame.class][field] :
            frame' = [class |-> frame.class,
                      array |-> Set(frame.class, field, frame.array, value),
                      op |-> field, args |-> << value >>, before |-> frame.array]
    /\ UNCHANGED << session, call, lost >>

ReceiveCaptureState ==
    /\ \E bytes \in ParameterValues.response :
         frame' = [class |-> "BulkResponseGetCaptureState",
                   array |-> [i \in DOMAIN BulkResponseGetCaptureState |->
                                 IF i < Len(bytes) THEN bytes[i + 1] ELSE 0],
                   op |-> "receive", args |-> bytes,
                   before |-> BulkResponseGetCaptureState]
    /\ UNCHANGED << session, call, lost >>

CodecNext ==
    \/ ConstructFrame
    \/ SetFrameField
    \/ ReceiveCaptureState

CodecSpec == CodecInit /\ [][CodecNext]_vars

(***************************************************************************)
(* Vocabulary of the properties.                                           *)
(***************************************************************************)
TransferOps ==
    {"bulkTransfer", "bulkWrite", "bulkRead", "bulkCommand", "bulkReadMulti",
     "controlTransfer", "controlWrite", "controlRead", "getConnectionSpeed"}

IsBeginCommand(c) ==
    /\ c.fn = "libusb_control_transfer"
    /\ c.type = LIBUSB_REQUEST_TYPE_VENDOR + LIBUSB_ENDPOINT_OUT
    /\ c.request = CONTROL_BEGINCOMMAND

IsGetSpeed(c) ==
    /\ c.fn = "libusb_control_transfer"
    /\ c.type = LIBUSB_REQUEST_TYPE_VENDOR + LIBUSB_ENDPOINT_IN
    /\ c.request = CONTROL_GETSPEED

IsBulkOut(c) == c.fn = "libusb_bulk_transfer" /\ c.endpoint = HANTEK_EP_OUT

\* the places of the calls in the log that satisfy P
Places(calls, P(_)) == { i \in 1..Len(calls) : P(calls[i]) }

Largest(S) == CHOOSE i \in S : \A j \in S : j <= i
Smallest(S) == CHOOSE i \in S : \A j \in S : i <= j

\* a bulkCommand call on a connected session with bulk transfers enabled
BulkCommandMade ==
    /\ call.op = "bulkCommand"
    /\ isConnected(call.pre)
    /\ call.pre.allowBulkTransfer

\* the handle is open and the interface of the session claimed on it
OpenedAndClaimed(s) == isConnected(s) /\ s.opened /\ s.interface \in s.claimed

(***************************************************************************)
(* C1: in a bulkCommand call on a connected session with bulk transfers    *)
(* enabled, every bulk OUT transfer comes after a BEGIN_COMMAND control    *)
(* write (request 0xb3) of the same call that returned no error; and when  *)
(* the control write returns an error (its last attempt is an error),      *)
(* bulkCommand returns that error and issues no bulk OUT transfer.         *)
(***************************************************************************)
C1_BeginCommandBeforeBulkWrite ==
    BulkCommandMade =>
        LET calls == call.calls
            begins == Places(calls, IsBeginCommand)
            writes == Places(calls, IsBulkOut)
        IN  /\ \A i \in writes : \E j \in begins : j < i /\ calls[j].rc >= 0
            /\ (begins # {} /\ calls[Largest(begins)].rc < 0) =>
                   (call.ret = calls[Largest(begins)].rc /\ writes = {})

\* a command that went out whole
C1_Witness ==
    /\ BulkCommandMade
    /\ OpenedAndClaimed(call.pre)
    /\ Places(call.calls, IsBulkOut) # {}
    /\ call.ret = Len(call.args[1])

(***************************************************************************)
(* C2, as claimed: in a bulkCommand call (here: on a session that opened   *)
(* and claimed) no transfer of any kind lies between the BEGIN_COMMAND     *)
(* control write and the bulk OUT write: the transfer just before the      *)
(* first bulk OUT transfer is a BEGIN_COMMAND control write.               *)
(***************************************************************************)
C2_NothingBetweenBeginAndWrite ==
    (BulkCommandMade /\ OpenedAndClaimed(call.pre)) =>
        LET writes == Places(call.calls, IsBulkOut)
        IN  writes # {} =>
                /\ Smallest(writes) > 1
                /\ IsBeginCommand(call.calls[Smallest(writes) - 1])

(***************************************************************************)
(* C2, amended: between the BEGIN_COMMAND control write and the bulk OUT   *)
(* write of a bulkCommand call lie the GETSPEED control reads (request     *)
(* 0xb2) of bulkWrite, at least one, and no other transfer.                *)
(***************************************************************************)
C2_OnlySpeedQueryBetween ==
    BulkCommandMade =>
        LET calls == call.calls
            begins == Places(calls, IsBeginCommand)
            writes == Places(calls, IsBulkOut)
        IN  writes # {} =>
                /\ begins # {}
                /\ Largest(begins) + 1 < Smallest(writes)
                /\ \A k \in (Largest(begins) + 1)..(Smallest(writes) - 1) :
                       IsGetSpeed(calls[k])

C2_Witness ==
    /\ BulkCommandMade
    /\ OpenedAndClaimed(call.pre)
    /\ Places(call.calls, IsBulkOut) # {}
    /\ Cardinality(Places(call.calls, IsGetSpeed)) = 2

C4_ConnectedIffOpenedAndClaimed ==
    /\ isConnected(session) <=> (session.opened /\ session.interface \in session.claimed)
    /\ (call.op = "connectDevice" /\ ~call.ret) => ~isConnected(session)

(***************************************************************************)
(* C5: while the session is disconnected, every transfer operation returns *)
(* the no-device error, makes no libusb call and leaves the session as it  *)
(* was.                                                                    *)
(***************************************************************************)
C5_DisconnectedTransfersFail ==
    (call.op \in TransferOps /\ ~isConnected(call.pre)) =>
        /\ call.ret = LIBUSB_ERROR_NO_DEVICE
        /\ call.calls = << >>
        /\ call.emitted = 0
        /\ session = call.pre

\* a command sent after the connection was lost
C5_Witness ==
    /\ call.op = "bulkCommand"
    /\ ~isConnected(call.pre)
    /\ call.lost
    /\ call.ret = LIBUSB_ERROR_NO_DEVICE

(***************************************************************************)
(* C6, as claimed: when a native transfer answers NO_DEVICE the session is *)
(* disconnected when the operation returns (interface released, handle     *)
(* closed, isConnected() false), and every later transfer operation fails  *)
(* with NO_DEVICE until a connect succeeds.                                *)
(***************************************************************************)
C6_NoDeviceDisconnects ==
    /\ (call # Idle /\ AnsweredNoDevice(call.calls)) =>
           /\ ~isConnected(session)
           /\ ~session.opened
           /\ session.claimed = {}
    /\ (call.op \in TransferOps /\ call.lost) => call.ret = LIBUSB_ERROR_NO_DEVICE

(***************************************************************************)
(* C7: deviceDisconnected is emitted once by an operation that takes the   *)
(* session from connected (isConnected()) to disconnected, and not at all  *)
(* by any other; so the signals emitted equal the transitions made, and    *)
(* connectionLost on a disconnected session emits nothing.                 *)
(***************************************************************************)
C7_EmittedOncePerDisconnect ==
    call # Idle =>
        call.emitted = IF isConnected(call.pre) /\ ~isConnected(session) THEN 1 ELSE 0

\* connectionLost a second time, after a loss that emitted the signal
C7_Witness ==
    /\ call.op = "connectionLost"
    /\ ~isConnected(call.pre)
    /\ call.lost
    /\ call.emitted = 0

(***************************************************************************)
(* C8, as claimed: connectionLost called again right after connectionLost  *)
(* leaves the handle, the claimed interface and the device reference held  *)
(* by the session as the first call left them.                             *)
(***************************************************************************)
C8_ConnectionLostIdempotent ==
    call.op = "connectionLost" =>
        LET again == connectionLost(session).s
        IN  /\ again.handle = session.handle
            /\ again.interface = session.interface
            /\ again.opened = session.opened
            /\ again.claimed = session.claimed
            /\ again.deviceRefs = session.deviceRefs

(***************************************************************************)
(* C9, as claimed: the interface claim is neither leaked nor mis-released: *)
(* libusb_release_interface is never called for an interface the session   *)
(* has not claimed, a claim is held on an open handle only, and once the   *)
(* session is destroyed no interface is claimed and no handle open.        *)
(***************************************************************************)
C9_ClaimNeitherLeakedNorMisreleased ==
    /\ ~session.releasedUnclaimed
    /\ session.claimed # {} => session.opened
    /\ session.destroyed => (~session.opened /\ session.claimed = {})

(***************************************************************************)
(* C10, as claimed: connectDevice on a connected session (here: one that   *)
(* opened and claimed) fails (does not report success) with an error, and  *)
(* performs no open or claim.                                              *)
(***************************************************************************)
C10_ConnectWhenConnectedFails ==
    (call.op = "connectDevice" /\ OpenedAndClaimed(call.pre)) =>
        /\ ~call.ret
        /\ call.errorMessage # << >>
        /\ call.calls = << >>

(***************************************************************************)
(* C10, amended: connectDevice on a session for which isConnected() holds  *)
(* returns true, sets no error message, makes no libusb call (no open, no  *)
(* claim) and leaves the session as it was.                                *)
(***************************************************************************)
C10_ConnectWhenConnectedIsNoOp ==
    (call.op = "connectDevice" /\ isConnected(call.pre)) =>
        /\ call.ret
        /\ call.errorMessage = << >>
        /\ call.calls = << >>
        /\ session = call.pre

C10_Witness ==
    /\ call.op = "connectDevice"
    /\ OpenedAndClaimed(call.pre)
    /\ call.ret

(***************************************************************************)
(* Further vocabulary: the attempts a transfer operation was called with   *)
(* (its last argument), the native transfers of a call in order, and what  *)
(* one native transfer yields to bulkTransfer or controlTransfer.          *)
(***************************************************************************)
CallAttempts == call.args[Len(call.args)]

IsBulk(c) == c.fn = "libusb_bulk_transfer"

IsBulkIn(c) == c.fn = "libusb_bulk_transfer" /\ c.endpoint = HANTEK_EP_IN

Transfers(calls) == SelectSeq(calls, IsTransfer)

BulkTransfers(calls) == SelectSeq(calls, IsBulk)

TransferResult(c) ==
    IF c.rc < 0 THEN c.rc
    ELSE IF c.fn = "libusb_bulk_transfer" THEN c.transferred ELSE c.rc

\* the transfers are the attempts of one bulkTransfer or controlTransfer call
\* with `attempts` >= 1: at least one and at most `attempts`, each but the
\* last answered with a timeout, and a last timeout only at the last attempt
OneRetriedTransfer(transfers, attempts) ==
    /\ Len(transfers) >= 1
    /\ Len(transfers) <= attempts
    /\ \A i \in 1..(Len(transfers) - 1) : transfers[i].rc = LIBUSB_ERROR_TIMEOUT
    /\ Len(transfers) < attempts => transfers[Len(transfers)].rc # LIBUSB_ERROR_TIMEOUT

(***************************************************************************)
(* C11: connectDevice on a session whose device still needs its firmware   *)
(* returns false without an error message, makes no libusb call (opens no  *)
(* handle, claims no interface) and leaves the session as it was,          *)
(* disconnected; and the firmware check comes before the check for a       *)
(* connected session: were the device of the session one without firmware, *)
(* connectDevice would return false and do nothing, connected or not.      *)
(***************************************************************************)
C11_NeedsFirmwareFailsFirst ==
    /\ (call.op = "connectDevice" /\ needsFirmware(call.pre)) =>
           /\ ~call.ret
           /\ call.errorMessage = << >>
           /\ call.calls = << >>
           /\ session = call.pre
           /\ ~isConnected(session)
           /\ ~session.opened
           /\ session.claimed = {}
    /\ LET s == [session EXCEPT !.descriptor = DescriptorWithoutFirmware]
       IN  \A r \in connectDevice(s) : ~r.ret /\ r.calls = << >> /\ r.s = s

\* connect tried on the device without firmware
C11_Witness ==
    /\ call.op = "connectDevice"
    /\ needsFirmware(call.pre)
    /\ ~call.ret
    /\ ~isConnected(session)

(***************************************************************************)
(* C12: a bulkTransfer or controlTransfer call with attempts = n >= 1 on a *)
(* connected session issues the native transfer at least once and at most  *)
(* n times, again only after a timeout, stops at the first answer that is  *)
(* not a timeout, and returns the result of the last attempt: the bytes    *)
(* transferred on success, the error code otherwise.                       *)
(***************************************************************************)
C12_RetryOnTimeoutOnly ==
    (/\ call.op \in {"bulkTransfer", "controlTransfer"}
     /\ isConnected(call.pre)
     /\ CallAttempts >= 1) =>
        LET transfers == Transfers(call.calls)
        IN  /\ OneRetriedTransfer(transfers, CallAttempts)
            /\ \A i \in 1..Len(transfers) :
                   transfers[i].fn = (IF call.op = "bulkTransfer"
                                      THEN "libusb_bulk_transfer"
                                      ELSE "libusb_control_transfer")
            /\ call.ret = TransferResult(transfers[Len(transfers)])

\* both attempts of a bulk transfer timed out
C12_Witness ==
    /\ call.op = "bulkTransfer"
    /\ OpenedAndClaimed(call.pre)
    /\ CallAttempts = 2
    /\ Len(Transfers(call.calls)) = 2
    /\ call.ret = LIBUSB_ERROR_TIMEOUT

(***************************************************************************)
(* C13, as claimed: a bulkTransfer or controlTransfer call with any        *)
(* negative attempts (here: on a session that opened and claimed) issues   *)
(* the native transfer, again after each timeout, and returns only once an *)
(* answer is not a timeout; it never returns the timeout error.            *)
(***************************************************************************)
C13_NegativeAttemptsRetryForever ==
    (/\ call.op \in {"bulkTransfer", "controlTransfer"}
     /\ OpenedAndClaimed(call.pre)
     /\ CallAttempts < 0) =>
        LET transfers == Transfers(call.calls)
        IN  /\ Len(transfers) >= 1
            /\ \A i \in 1..(Len(transfers) - 1) : transfers[i].rc = LIBUSB_ERROR_TIMEOUT
            /\ call.ret # LIBUSB_ERROR_TIMEOUT

(***************************************************************************)
(* C14: a bulkWrite or bulkRead call on a connected session first issues a *)
(* GETSPEED control read (request 0xb2, repeated on timeout as one         *)
(* controlRead does); when that read ends with an error the call returns   *)
(* the error and issues no bulk transfer; otherwise the transfers of       *)
(* exactly one bulkTransfer follow, on the OUT endpoint for bulkWrite and  *)
(* the IN endpoint for bulkRead, and the call returns its result.          *)
(***************************************************************************)
C14_SpeedQueryThenOneBulkTransfer ==
    (call.op \in {"bulkWrite", "bulkRead"} /\ isConnected(call.pre)) =>
        LET transfers == Transfers(call.calls)
            speeds == SelectSeq(call.calls, IsGetSpeed)
            bulks == BulkTransfers(call.calls)
            endpoint == IF call.op = "bulkWrite" THEN HANTEK_EP_OUT ELSE HANTEK_EP_IN
        IN  /\ transfers = speeds \o bulks
            /\ OneRetriedTransfer(speeds, HANTEK_ATTEMPTS)
            /\ IF speeds[Len(speeds)].rc < 0
               THEN /\ call.ret = speeds[Len(speeds)].rc
                    /\ bulks = << >>
               ELSE /\ OneRetriedTransfer(bulks, CallAttempts)
                    /\ \A i \in 1..Len(bulks) :
                           /\ bulks[i].endpoint = endpoint
                           /\ bulks[i].length = call.args[1]
                    /\ call.ret = TransferResult(bulks[Len(bulks)])

\* a read that came back whole after its speed query
C14_Witness ==
    /\ call.op = "bulkRead"
    /\ OpenedAndClaimed(call.pre)
    /\ Len(SelectSeq(call.calls, IsGetSpeed)) = 1
    /\ Len(SelectSeq(call.calls, IsBulkIn)) = 1
    /\ call.ret = call.args[1]

(***************************************************************************)
(* C15: with bulk transfers disabled (setEnableBulkTransfer(false)), a     *)
(* bulkCommand call on a connected session returns success, makes no       *)
(* libusb call (no control and no bulk transfer) and leaves the session as *)
(* it was.                                                                 *)
(***************************************************************************)
C15_DisabledBulkCommandDoesNothing ==
    (/\ call.op = "bulkCommand"
     /\ isConnected(call.pre)
     /\ ~call.pre.allowBulkTransfer) =>
        /\ call.ret = LIBUSB_SUCCESS
        /\ call.calls = << >>
        /\ call.emitted = 0
        /\ session = call.pre

\* a command given to an opened and claimed session with bulk transfers off
C15_Witness ==
    /\ call.op = "bulkCommand"
    /\ OpenedAndClaimed(call.pre)
    /\ ~call.pre.allowBulkTransfer
    /\ call.ret = LIBUSB_SUCCESS

(***************************************************************************)
(* C16, as claimed: a bulkReadMulti call with total length L on a session  *)
(* (here: one that opened and claimed) with IN packet length P > 0, when   *)
(* every native transfer of the call succeeds and every bulk transfer      *)
(* fills the length asked for, issues exactly ceil(L / P) bulk IN          *)
(* transfers, the k-th (from 0) of size min(L - k * P, P), and returns L.  *)
(***************************************************************************)
Ceiling(a, b) == (a + b - 1) \div b

Minimum(a, b) == IF a < b THEN a ELSE b

\* the device answered every transfer of the call, and filled every packet
FilledEveryPacket(calls) ==
    \A i \in 1..Len(calls) :
        IsTransfer(calls[i]) =>
            /\ calls[i].rc >= 0
            /\ IsBulk(calls[i]) => calls[i].transferred = calls[i].length

C16_ReadsCeilingPacketsReturnsLength ==
    (/\ call.op = "bulkReadMulti"
     /\ OpenedAndClaimed(call.pre)
     /\ call.pre.inPacketLength > 0
     /\ call.returned
     /\ FilledEveryPacket(call.calls)) =>
        LET L == call.args[1]
            P == call.pre.inPacketLength
            bulks == BulkTransfers(call.calls)
        IN  /\ Len(bulks) = Ceiling(L, P)
            /\ \A k \in 0..(Len(bulks) - 1) :
                   /\ bulks[k + 1].endpoint = HANTEK_EP_IN
                   /\ bulks[k + 1].length = Minimum(L - k * P, P)
            /\ call.ret = L

(***************************************************************************)
(* C17: a bulkReadMulti call on a connected session stops at the first     *)
(* packet transfer (one bulkTransfer, with its attempts) that ends with an *)
(* error or with fewer bytes than the IN packet length, and issues no      *)
(* transfer after it; it returns the bytes of the successful packets added *)
(* up when that is positive, and the result of the last transfer when      *)
(* nothing was received.                                                   *)
(***************************************************************************)
\* the places in the bulk transfers of a call where a packet transfer ends:
\* an answer that is not a timeout, or the last of `attempts` timeouts
PacketEnds(bulks, attempts) ==
    { i \in 1..Len(bulks) :
        \/ bulks[i].rc # LIBUSB_ERROR_TIMEOUT
        \/ /\ i >= attempts
           /\ \A j \in (i - attempts + 1)..i : bulks[j].rc = LIBUSB_ERROR_TIMEOUT
           /\ (i = attempts \/ bulks[i - attempts].rc # LIBUSB_ERROR_TIMEOUT) }

\* the bytes of the successful transfers added up
RECURSIVE BytesReceived(_)
BytesReceived(bulks) ==
    IF bulks = << >> THEN 0
    ELSE (IF Head(bulks).rc >= 0 THEN Head(bulks).transferred ELSE 0)
         + BytesReceived(Tail(bulks))

C18_LossReturnsNoDevice ==
    (/\ call.op \in TransferOps
     /\ OpenedAndClaimed(call.pre)
     /\ AnsweredNoDevice(call.calls)) =>
        call.ret = LIBUSB_ERROR_NO_DEVICE

(***************************************************************************)
(* C19: getPacketSize returns 64 when its speed query yields               *)
(* CONNECTION_FULLSPEED and 512 when it yields CONNECTION_HIGHSPEED; for a *)
(* speed above CONNECTION_HIGHSPEED it throws, and for a failed query (a   *)
(* negative result, the session disconnected included) it returns -1: in   *)
(* neither case a positive packet size.                                    *)
(***************************************************************************)
C19_PacketSizeBySpeed ==
    call.op = "getPacketSize" =>
        LET transfers == Transfers(call.calls)
            failed == transfers = << >> \/ transfers[Len(transfers)].rc < 0
        IN  /\ call.speed < 0 <=> failed
            /\ call.speed = CONNECTION_FULLSPEED => (call.ret = 64 /\ ~call.thrown)
            /\ call.speed = CONNECTION_HIGHSPEED => (call.ret = 512 /\ ~call.thrown)
            /\ call.speed > CONNECTION_HIGHSPEED => call.thrown
            /\ call.speed < 0 => (call.ret = -1 /\ ~call.thrown)

\* the device named a speed above high speed
C19_Witness ==
    /\ call.op = "getPacketSize"
    /\ OpenedAndClaimed(call.pre)
    /\ call.speed > CONNECTION_HIGHSPEED
    /\ call.thrown

(***************************************************************************)
(* C20, as claimed: a connectDevice call that returns true after a loss of *)
(* the connection leaves the session connected, its interface claimed, and *)
(* inPacketLength and outPacketLength equal to the wMaxPacketSize of the   *)
(* IN and OUT endpoints of that interface, whatever they were before.      *)
(***************************************************************************)
\* wMaxPacketSize of the endpoint at `address` of the interface the session
\* holds; 0 when the interface has no endpoint there
MeasuredPacketLength(s, address) ==
    LET number == CHOOSE i \in 1..Len(s.config) :
                      s.config[i].bInterfaceNumber = s.interface
        endpoints == s.config[number].endpoint
        at == { e \in 1..Len(endpoints) : endpoints[e].bEndpointAddress = address }
    IN  IF at = {} THEN 0 ELSE endpoints[CHOOSE e \in at : TRUE].wMaxPacketSize

C20_ReconnectMeasuresPacketLengths ==
    (call.op = "connectDevice" /\ call.lost /\ call.ret) =>
        /\ isConnected(session)
        /\ session.opened
        /\ session.interface \in session.claimed
        /\ session.inPacketLength = MeasuredPacketLength(session, HANTEK_EP_IN)
        /\ session.outPacketLength = MeasuredPacketLength(session, HANTEK_EP_OUT)

(***************************************************************************)
(* C21: right after its setter was called on v, the getter of a field that *)
(* is more than one byte wide returns v: Downsampler (16 bits) and         *)
(* TriggerPosition (24) of BulkSetTriggerAndSamplerate, SamplerateSlow     *)
(* (16) of BulkSetSamplerate5200, TriggerPositionPre and                   *)
(* TriggerPositionPost (16) of BulkSetBuffer5200, Samplerate (16) of       *)
(* BulkSetSamplerate2250, and TriggerPositionPre and TriggerPositionPost   *)
(* (24) of BulkSetBuffer2250; a 24-bit field set to a 32-bit value returns *)
(* the value modulo 2^24.                                                  *)
(***************************************************************************)
Fields16 ==
    { << "BulkSetTriggerAndSamplerate", "Downsampler" >>,
      << "BulkSetSamplerate5200", "SamplerateSlow" >>,
      << "BulkSetBuffer5200", "TriggerPositionPre" >>,
      << "BulkSetBuffer5200", "TriggerPositionPost" >>,
      << "BulkSetSamplerate2250", "Samplerate" >> }

Fields24 ==
    { << "BulkSetTriggerAndSamplerate", "TriggerPosition" >>,
      << "BulkSetBuffer2250", "TriggerPositionPre" >>,
      << "BulkSetBuffer2250", "TriggerPositionPost" >> }

\* the frame was made by the setter of `field` of `class`
WasSet(class, field) == frame.class = class /\ frame.op = field

C21_WideFieldsRoundTrip ==
    /\ \A f \in Fields16 :
          WasSet(f[1], f[2]) => Get(f[1], f[2], frame.array) = frame.args[1]
    /\ \A f \in Fields24 :
          WasSet(f[1], f[2]) => Get(f[1], f[2], frame.array) = frame.args[1] % 16777216

C21_Witness ==
    /\ WasSet("BulkSetBuffer2250", "TriggerPositionPre")
    /\ frame.args[1] = 313179084
    /\ BulkSetBuffer2250_getTriggerPositionPre(frame.array) = 11189196
    /\ BulkSetBuffer2250_getTriggerPositionPre(frame.before) = 0

(***************************************************************************)
(* C22: setTriggerPosition(p) of BulkSetTriggerAndSamplerate writes bits   *)
(* 0-7 of p to byte 6, bits 8-15 to byte 7 and bits 16-23 to byte 10 (not  *)
(* byte 8) of the 12-byte frame and changes no other byte, and             *)
(* getTriggerPosition reads the same three bytes: 0xAABBCC is stored as    *)
(* 0xCC, 0xBB, 0xAA at offsets 6, 7, 10.                                   *)
(***************************************************************************)
C22_TriggerPositionBytes ==
    WasSet("BulkSetTriggerAndSamplerate", "TriggerPosition") =>
        LET p == frame.args[1]
        IN  /\ getSize(frame.array) = 12
            /\ frame.array[6] = p % 256
            /\ frame.array[7] = (p \div 256) % 256
            /\ frame.array[10] = (p \div 65536) % 256
            /\ \A i \in DOMAIN frame.array \ {6, 7, 10} : frame.array[i] = frame.before[i]
            /\ BulkSetTriggerAndSamplerate_getTriggerPosition(frame.array)
                 = frame.array[6] + 256 * frame.array[7] + 65536 * frame.array[10]
            /\ p = 11189196 =>
                 /\ frame.array[6] = 204
                 /\ frame.array[7] = 187
                 /\ frame.array[10] = 170

C22_Witness ==
    /\ WasSet("BulkSetTriggerAndSamplerate", "TriggerPosition")
    /\ frame.args[1] = 11189196
    /\ frame.before[6] = 0 /\ frame.before[7] = 0 /\ frame.before[10] = 0
    /\ frame.before[2] # 0 /\ frame.before[3] # 0 /\ frame.before[4] # 0
    /\ << frame.array[6], frame.array[7], frame.array[8], frame.array[10] >>
         = << 204, 187, 0, 170 >>

(***************************************************************************)
(* C23: the bytes a constructor initializes stay as they are under every   *)
(* sequence of setter calls: the opcode at offset 0 of every frame, 0x0f   *)
(* at offset 1 of BulkSetFilter, 0xff at offsets 5 and 9 of                *)
(* BulkSetBuffer5200, and 0x02 at offset 4 of BulkSetTrigger5200.          *)
(***************************************************************************)
\* the frame was made by a setter
WasSetAny == frame.class \in Classes.builder /\ frame.op \in DOMAIN Setters[frame.class]

Bit(flag) == IF flag THEN 1 ELSE 0

ClaimedOpcode ==
    [ BulkForceTrigger |-> 2, BulkCaptureStart |-> 3, BulkTriggerEnabled |-> 4,
      BulkGetData |-> 5, BulkGetCaptureState |-> 6, BulkGetLogicalData |-> 9,
      BulkSetFilter |-> 0, BulkSetTriggerAndSamplerate |-> 1, BulkSetGain |-> 7,
      BulkSetChannels2250 |-> 11, BulkSetTrigger2250 |-> 12,
      BulkSetSamplerate5200 |-> 12, BulkSetRecordLength2250 |-> 13,
      BulkSetBuffer5200 |-> 13, BulkSetSamplerate2250 |-> 14,
      BulkSetTrigger5200 |-> 14, BulkSetBuffer2250 |-> 15 ]

\* the fixed byte at offset i of a frame of `class`, 0 where there is none
FixedByte(class, i) ==
    CASE class = "BulkSetFilter" /\ i = 1 -> 15
      [] class = "BulkSetBuffer5200" /\ i \in {5, 9} -> 255
      [] class = "BulkSetTrigger5200" /\ i = 4 -> 2
      [] OTHER -> 0

DefaultConstructed == frame.op = "construct" /\ Len(frame.args) = 0

C27_SetBuffer2250OneSize ==
    (frame.class = "BulkSetBuffer2250" /\ frame.op = "construct") =>
        getSize(frame.array) = getSize(BulkSetBuffer2250(<< >>))

(***************************************************************************)
(* C28: setters are independent: in every frame, a call of the setter of   *)
(* one field leaves the result of the getter of every other field of the   *)
(* frame as it was, fields packed into one byte and fields split over      *)
(* bytes that are not adjacent included.                                   *)
(***************************************************************************)
C28_SettersIndependent ==
    WasSetAny =>
        \A other \in DOMAIN Setters[frame.class] \ {frame.op} :
            Get(frame.class, other, frame.array) = Get(frame.class, other, frame.before)

\* the setter of recordLength, in the middle of byte 2 of
\* BulkSetTriggerAndSamplerate, called with every other field set
C28_Witness ==
    /\ WasSet("BulkSetTriggerAndSamplerate", "RecordLength")
    /\ frame.args[1] = 255
    /\ frame.before[2] = 227
    /\ frame.array[2] = 255
    /\ frame.array[3] = 15
    /\ BulkSetTriggerAndSamplerate_getTriggerPosition(frame.array) = 11189196
    /\ BulkSetTriggerAndSamplerate_getDownsampler(frame.array) = 48076

(***************************************************************************)
(* C29: BulkSetTrigger5200 stores fastRate inverted: after setFastRate(b)  *)
(* the fastRate bit of byte 2 is the complement of b and getFastRate()     *)
(* returns b; a default-constructed frame, whose byte 2 is zero, reports   *)
(* getFastRate() = true, and a frame of the constructor called on two      *)
(* arguments, fastRate taking its default false, reports false.            *)
(***************************************************************************)
C29_FastRateInverted ==
    frame.class = "BulkSetTrigger5200" =>
        /\ frame.op = "FastRate" =>
             /\ ReadBits(frame.array[2], BitStructs.ETsrBits.fastRate)
                  = 1 - Bit(frame.args[1])
             /\ BulkSetTrigger5200_getFastRate(frame.array) = frame.args[1]
        /\ DefaultConstructed =>
             /\ frame.array[2] = 0
             /\ BulkSetTrigger5200_getFastRate(frame.array) = TRUE
        /\ (frame.op = "construct" /\ Len(frame.args) = 2) =>
             BulkSetTrigger5200_getFastRate(frame.array) = FALSE

C29_Witness ==
    /\ frame.class = "BulkSetTrigger5200"
    /\ frame.op = "FastRate"
    /\ frame.args[1] = TRUE
    /\ BulkSetTrigger5200_getFastRate(frame.before) = FALSE
    /\ BulkSetTrigger5200_getFastRate(frame.array) = TRUE
    /\ frame.array[2] = 124

(***************************************************************************)
(* C30, as claimed: the session holds exactly one reference on the device  *)
(* from its construction to its destruction: libusb_unref_device is called *)
(* once for the one libusb_ref_device of the constructor, by the           *)
(* destructor and never before, and the device is referenced whenever      *)
(* connectDevice hands it to libusb_open.                                  *)
(***************************************************************************)
\* the operation just made called libusb function `fn`
Called(fn) == call # Idle /\ \E i \in 1..Len(call.calls) : call.calls[i].fn = fn

C30_OneDeviceReference ==
    /\ ~session.destroyed => session.deviceRefs = 1
    /\ session.destroyed => session.deviceRefs = 0
    /\ (call # Idle /\ call.op = "connectDevice" /\ Called("libusb_open")) =>
          call.pre.deviceRefs >= 1

(***************************************************************************)
(* C31, as claimed: bulkReadMulti returns after finitely many packet       *)
(* transfers, whatever the length asked for, whatever inPacketLength the   *)
(* session holds (0 included) and whatever the device answers, as long as  *)
(* every transfer returns: no call is still in its loop after MaxPackets   *)
(* transfers, more than any length drawn needs.                            *)
(***************************************************************************)
C31_BulkReadMultiTerminates ==
    call.op = "bulkReadMulti" => call.returned

(***************************************************************************)
(* C32, as claimed: bulkReadMulti never reads outside the buffer of        *)
(* `length` bytes it is given and leaves no gap: every packet transfer     *)
(* starts at the offset equal to the bytes received before it and asks for *)
(* a size that ends within `length`, and the byte count returned is at     *)
(* most `length`.                                                          *)
(***************************************************************************)
C32_ReadsWithinBuffer ==
    call.op = "bulkReadMulti" =>
        LET bulks == BulkTransfers(call.calls)
            length == call.args[1]
        IN  /\ \A i \in 1..Len(bulks) :
                  /\ bulks[i].offset = BytesReceived(SubSeq(bulks, 1, i - 1))
                  /\ bulks[i].offset + bulks[i].length <= length
            /\ (call.returned /\ call.ret >= 0) => call.ret <= length

(***************************************************************************)
(* C33, as claimed: once connectDevice has returned true, inPacketLength   *)
(* is the wMaxPacketSize of the endpoint with address HANTEK_EP_IN of the  *)
(* claimed interface and outPacketLength that of the endpoint with address *)
(* HANTEK_EP_OUT, so both are positive; on an interface without one of the *)
(* two endpoint addresses connectDevice does not return true.              *)
(***************************************************************************)
C33_PacketLengthsOfClaimedEndpoints ==
    (call.op = "connectDevice" /\ call.ret) =>
        \E i \in 1..Len(session.config) :
            LET endpoints == session.config[i].endpoint
            IN  /\ session.config[i].bInterfaceNumber = session.interface
                /\ session.interface \in session.claimed
                /\ \E e \in 1..Len(endpoints) :
                       /\ endpoints[e].bEndpointAddress = HANTEK_EP_IN
                       /\ endpoints[e].wMaxPacketSize = session.inPacketLength
                /\ \E e \in 1..Len(endpoints) :
                       /\ endpoints[e].bEndpointAddress = HANTEK_EP_OUT
                       /\ endpoints[e].wMaxPacketSize = session.outPacketLength
                /\ session.inPacketLength > 0
                /\ session.outPacketLength > 0

=============================================================================
